---- MODULE Spec2Model ----
(***************************************************************************)
(* Model of the repository's packages.                                     *)
(* p2pnode (src/p2pnode/p2pnode.go, lines 1-321): the bootstrap phase of   *)
(* NewNode, the tail of NewNode that registers the disconnect notifier and *)
(* advertises, and the callback returned by ReconnectCB.  The libp2p host  *)
(* is the environment: peers become reachable or unreachable, connections  *)
(* open and close on their own.                                            *)
(* util (src/unnamed/part_004, lines 1-111): ExpoBackoff and               *)
(* ExpoBackoffAttempts.                                                    *)
(* p2putil (src/p2putil/p2putil.go, and its later version                 *)
(* src/unnamed/part_005): SortPeers.  The producer of the channel and the  *)
(* ping protocol are the environment.                                      *)
(***************************************************************************)
EXTENDS Integers, Sequences, FiniteSets, TLC

\* ------------------------------------------------------------------ bounds
\* Longest Config.BootstrapPeers explored.
MaxAnchors == 2
\* Longest Config.Rendezvous explored.
MaxRendezvous == 2
\* Number of disconnect notifications (callback invocations) explored.
NumCB == 2
\* Host.Connect calls explored per callback invocation.
MaxCBDials == 2
\* Host.Connect calls explored in the long run of one invocation.
MaxRedials == 11

\* Width in bits of time.Duration in the model (int64 in the code): durations
\* are the two's-complement integers of this width.
DurationBits == 6
\* Largest `attempts` argument of NewExpoBackoffAttempts explored.
MaxAttemptsArg == 6
\* Calls of Sleep() or Attempt() explored on one object.
MaxCalls == 8

\* Longest Config.HandlerProtocolIDs and Config.StreamHandlers explored.
MaxHandlers == 2
\* Longest list of bootstrap addresses at which bootstrapAddrs.Set is still called.
MaxAddrs == 3
\* Calls of pskValue.Set explored.
MaxSets == 3
\* Calls of AddPSKFlag and AddBootstrapFlags explored, together.
MaxFlagCalls == 3
\* Candidates the producer sends on the channel of SortPeers.
MaxPeers == 4
\* Candidates sent by the producer in the runs that follow a call to its end.
MaxProbes == 2
\* Largest round-trip time a probe measures (0: the probe gave no measure).
MaxRTT == 3

\* ------------------------------------------------------- program constants
MaxConnAttempts == 5
MaxBackoffSecs == 512

\* ------------------------------------------------------------------ values
PeerIDs == {"A", "B"}
NoID == "none"
NoAddr == [ID |-> NoID]
\* A multiaddr is its transport part and its /p2p/ component (NoID: absent).
Multiaddrs == {[transport |-> "/ip4/tcp", p2p |-> id] : id \in PeerIDs \cup {NoID}}
Namespaces == {"svc", ""}
Connected == "Connected"
NotConnected == "NotConnected"

SeqsUpTo(S, n) == UNION {[1..k -> S] : k \in 0..n}
Range(s) == {s[i] : i \in DOMAIN s}

\* peer.AddrInfoFromP2pAddr: fails on a multiaddr without a /p2p/ component.
AddrInfoFromP2pAddr(m) ==
    IF m.p2p = NoID THEN [err |-> TRUE, info |-> NoAddr]
    ELSE [err |-> FALSE, info |-> [ID |-> m.p2p]]

\* int(math.Pow(2, float64(n)))
RECURSIVE Pow2(_)
Pow2(n) == IF n <= 0 THEN 1 ELSE 2 * Pow2(n - 1)

VARIABLES
    anchors,            \* config.BootstrapPeers
    rendezvous,         \* config.Rendezvous
    reachable,          \* environment: a dial to the peer would succeed
    conn,               \* host: Network().Connectedness(peer)
    cancelled,          \* node.Ctx.Err() != nil
    pc,                 \* position of NewNode
    err,                \* error NewNode returns ("none": nil)
    numConnected,       \* NewNode local
    bootstrapAttempts,  \* NewNode local
    sleepDuration,      \* NewNode local (bootstrap backoff)
    sleepI,             \* NewNode local: i of the sleep loop
    peerIdx,            \* NewNode local: index of the range over BootstrapPeers
    goroutines,         \* dial goroutines started and not yet done (the WaitGroup)
    registered,         \* the NotifyBundle is registered with the network
    routingDiscovery,   \* node.RoutingDiscovery != nil
    advIdx,             \* NewNode local: index of the range over Rendezvous
    cb,                 \* invocations of the callback returned by ReconnectCB
    dialCount,          \* history: Host.Connect calls of bootstrap goroutines, per peer
    bootSlept,          \* history: seconds slept by the bootstrap phase
    counted,            \* history: peers found Connected by the latest count
    advLog,             \* history: namespaces NewNode passed to discovery.Advertise
    ebPc,               \* util: "start", then what the constructor call left
    ebArgs,             \* util: the constructor called and its arguments
    eb,                 \* util: the ExpoBackoff object (nil: none)
    eba,                \* util: the ExpoBackoffAttempts object (nil: none)
    ebErr,              \* util: the error the constructor returned ("none": nil)
    sleeps,             \* history: durations passed to time.Sleep by ExpoBackoff.Sleep
    rets,               \* history: the calls of Attempt(): value returned, sleeps made
    spPc,               \* p2putil: position of SortPeers
    chanClosed,         \* p2putil: the producer has closed peerChan
    timedOut,           \* p2putil: the one-second deadline of line 61 has passed
    cur,                \* p2putil: p of the range loop, the candidate being probed
    received,           \* history: candidates received from peerChan
    lastProbe,          \* history: the latest probe result and whether its context was done
    spPeers,            \* p2putil: the slice `peers` as the range loop built it
    result,             \* p2putil: the slice SortPeers returns
    protocolIDs,        \* config.HandlerProtocolIDs
    streamHandlers,     \* config.StreamHandlers
    handlerIdx,         \* NewNode local: i of the range over HandlerProtocolIDs
    hostHandlers,       \* host: the calls of Host.SetStreamHandler, in order
    pskFlagLoaded,      \* util: package variable of psk.go
    bootstrapsFlagLoaded, \* util: package variable of the bootstrap flags
    flagRegs,           \* flag.CommandLine: the names passed to flag.Var, in order
    flagRets,           \* history: the calls of AddPSKFlag / AddBootstrapFlags and what they returned
    psk,                \* util: package variable psk (hPsk, sPsk)
    pskLog,             \* history: the pskValue.Set calls, their errors and the hPsk they left
    bootstraps,         \* util: package variable bootstraps
    bsLast,             \* history: the latest bootstrapAddrs.Set call and its error
    home,               \* environment: os.UserHomeDir() ("": it fails)
    fs,                 \* environment: what lies at each path of the file system
    keyCall,            \* history: the latest StorePrivKeyToFile / LoadPrivKeyFromFile call
    storedAt,           \* history: the paths StorePrivKeyToFile has written
    kfCall,             \* the last call of CreateOrLoadKey: flags, draws, results
    issued              \* history: per path, the key CreateOrLoadKey first returned

cfgVars  == <<anchors, rendezvous>>
envVars  == <<reachable, conn, cancelled>>
bootVars == <<numConnected, bootstrapAttempts, sleepDuration, sleepI, peerIdx>>
tailVars == <<registered, routingDiscovery, advIdx, advLog>>
histVars == <<dialCount, bootSlept, counted>>
utilVars == <<ebPc, ebArgs, eb, eba, ebErr, sleeps, rets>>
sortVars == <<spPc, chanClosed, timedOut, cur, received, lastProbe, spPeers, result>>
handlerVars == <<protocolIDs, streamHandlers, handlerIdx, hostHandlers>>
flagVars == <<pskFlagLoaded, bootstrapsFlagLoaded, flagRegs, flagRets, psk, pskLog,
              bootstraps, bsLast>>
keyVars  == <<home, fs, keyCall, storedAt, kfCall, issued>>
pkgVars  == <<flagVars, keyVars>>
libVars  == <<utilVars, sortVars, handlerVars, pkgVars>>
nodeVars == <<anchors, rendezvous, reachable, conn, cancelled, pc, err, numConnected,
              bootstrapAttempts, sleepDuration, sleepI, peerIdx, goroutines,
              registered, routingDiscovery, advIdx, cb, dialCount, bootSlept,
              counted, advLog>>
vars == <<anchors, rendezvous, reachable, conn, cancelled, pc, err, numConnected,
          bootstrapAttempts, sleepDuration, sleepI, peerIdx, goroutines,
          registered, routingDiscovery, advIdx, cb, dialCount, bootSlept,
          counted, advLog, ebPc, ebArgs, eb, eba, ebErr, sleeps, rets,
          spPc, chanClosed, timedOut, cur, received, lastProbe, spPeers, result,
          protocolIDs, streamHandlers, handlerIdx, hostHandlers,
          pskFlagLoaded, bootstrapsFlagLoaded, flagRegs, flagRets, psk, pskLog,
          bootstraps, bsLast, home, fs, keyCall, storedAt, kfCall, issued>>

CBs == 1..NumCB
IdleCB == [pc |-> "idle", peer |-> NoID, addrInfo |-> NoAddr, connAttempts |-> 0,
           sleepDuration |-> 0, i |-> 0, advIdx |-> 0, dials |-> 0, slept |-> 0,
           adv |-> <<>>, advCalls |-> <<>>, ctxAtEntry |-> FALSE, dialOk |-> FALSE,
           exit |-> "none"]

ConnectedPeers == {p \in PeerIDs : conn[p] = Connected}

\* Identities named by the anchors that parse.
AnchorIDs == {AddrInfoFromP2pAddr(anchors[k]).info.ID :
                 k \in {j \in DOMAIN anchors : ~AddrInfoFromP2pAddr(anchors[j]).err}}

\* ---------------------------------------------------------------- the host
\* Host.Connect(ctx, addr): nil when the peer is already connected or the dial
\* succeeds; a dial under a cancelled context fails.
ConnectSucceeds(p) == conn[p] = Connected \/ (reachable[p] /\ ~cancelled)
ConnAfterConnect(p) == IF ConnectSucceeds(p) THEN [conn EXCEPT ![p] = Connected] ELSE conn

\* ------------------------------------------------------------------- Init
\* Pointers to objects of package util: a record with the object's fields, and
\* the nil pointer.
NilBackoff == [nil |-> TRUE, initPeriod |-> 0, maxPeriod |-> 0, nextPeriod |-> 0]
NilAttempts == [nil |-> TRUE, maxAttempts |-> 0, attempt |-> 0]
NoArgs == [fn |-> "none", init |-> 0, max |-> 0, attempts |-> 0]

\* No object of package util has been constructed.
UtilIdle ==
    /\ ebPc = "start"
    /\ ebArgs = NoArgs
    /\ eb = NilBackoff
    /\ eba = NilAttempts
    /\ ebErr = "none"
    /\ sleeps = <<>>
    /\ rets = <<>>

\* A candidate: its identity and len(p.Addrs).
NoCandidate == [ID |-> NoID, addrs |-> 0]

NoProbe == [rtt |-> 0, ctxDone |-> FALSE]

\* SortPeers is not called.
SortIdle ==
    /\ spPc = "notCalled"
    /\ chanClosed = FALSE
    /\ timedOut = FALSE
    /\ cur = NoCandidate
    /\ received = 0
    /\ lastProbe = NoProbe
    /\ spPeers = <<>>
    /\ result = <<>>

NilHandler == "nil"
ProtocolIDs == {"/proto", ""}
Handlers == {"handler", NilHandler}

\* A configuration without stream handlers: nothing to register.
NoHandlers ==
    /\ protocolIDs = <<>>
    /\ streamHandlers = <<>>
    /\ handlerIdx = 0
    /\ hostHandlers = <<>>

\* ------------------------------------------------ package util: the globals
\* Line 38 of psk.go
PSK_NUM_BYTES == 32

\* A nil pnet.PSK, and the zero value of pskValue (psk.go, lines 31-34 and 45).
NilPSK == [nil |-> TRUE, len |-> 0, digest |-> ""]
ZeroPskValue == [hPsk |-> NilPSK, sPsk |-> ""]

\* No bootstrapAddrs.Set call yet.
NoSetCall == [called |-> FALSE, val |-> <<>>, err |-> "none"]

\* The package variables as the Go runtime initialises them, nothing registered
\* with the flag package.
FlagsIdle ==
    /\ pskFlagLoaded = FALSE
    /\ bootstrapsFlagLoaded = FALSE
    /\ flagRegs = <<>>
    /\ flagRets = <<>>
    /\ psk = ZeroPskValue
    /\ pskLog = <<>>
    /\ bootstraps = <<>>
    /\ bsLast = NoSetCall

\* A path is the sequence of its characters.
HomeDir == <<"/", "h">>
KeyName == <<"/", "k">>
AbsPaths == {KeyName, HomeDir \o KeyName}

\* What lies at a path: nothing, a regular file, a directory.
NoEntry == [kind |-> "absent", content |-> <<>>]
NoKey == [nil |-> TRUE, type |-> 0, raw |-> <<>>]
NoKeyCall == [op |-> "none", path |-> <<>>, key |-> NoKey, err |-> "none", before |-> NoEntry]
NoFlags == [nilPtr |-> TRUE, algo |-> <<>>, bits |-> 0, keyfile |-> <<>>, ephemeral |-> FALSE]
NoKfCall == [called |-> FALSE, kf |-> NoFlags, rnd |-> NoKey, written |-> FALSE,
             key |-> NoKey, err |-> "none", generated |-> FALSE, touched |-> FALSE]

\* No key file is stored or loaded; the file system is empty.
KeysIdle ==
    /\ home = HomeDir
    /\ fs = [p \in AbsPaths |-> NoEntry]
    /\ keyCall = NoKeyCall
    /\ storedAt = {}
    /\ kfCall = NoKfCall
    /\ issued = [p \in AbsPaths |-> NoKey]

PkgIdle == FlagsIdle /\ KeysIdle

InitConfig ==
    /\ anchors \in SeqsUpTo(Multiaddrs, MaxAnchors)
    /\ rendezvous \in SeqsUpTo(Namespaces, MaxRendezvous)

\* Nothing registered, no discovery handle, no callback invoked.
InitTail ==
    /\ registered = FALSE
    /\ routingDiscovery = FALSE
    /\ advIdx = 0
    /\ advLog = <<>>
    /\ cb = [c \in CBs |-> IdleCB]

\* NewNode is called: nothing is connected, the context is live.
Init ==
    /\ InitConfig
    /\ InitTail
    /\ UtilIdle
    /\ SortIdle
    /\ PkgIdle
    /\ NoHandlers
    /\ goroutines = {}
    /\ sleepDuration = 0
    /\ sleepI = 0
    /\ peerIdx = 0
    /\ reachable \in [PeerIDs -> BOOLEAN]
    /\ conn = [p \in PeerIDs |-> NotConnected]
    /\ cancelled = FALSE
    /\ pc = "setup"
    /\ err = "none"
    /\ numConnected = 0
    /\ bootstrapAttempts = 0
    /\ dialCount = [p \in PeerIDs |-> 0]
    /\ bootSlept = 0
    /\ counted = {}

\* ------------------------------------------------------------ environment
BecomeReachable(p) ==
    /\ ~reachable[p]
    /\ reachable' = [reachable EXCEPT ![p] = TRUE]
    /\ UNCHANGED <<libVars, cfgVars, conn, cancelled, pc, err, bootVars, goroutines,
                   tailVars, cb, histVars>>

BecomeUnreachable(p) ==
    /\ reachable[p]
    /\ conn[p] = NotConnected
    /\ reachable' = [reachable EXCEPT ![p] = FALSE]
    /\ UNCHANGED <<libVars, cfgVars, conn, cancelled, pc, err, bootVars, goroutines,
                   tailVars, cb, histVars>>

\* A peer dials this host (or the DHT opens a connection to it).
InboundConnect(p) ==
    /\ reachable[p]
    /\ conn[p] = NotConnected
    /\ ~cancelled
    /\ conn' = [conn EXCEPT ![p] = Connected]
    /\ UNCHANGED <<libVars, cfgVars, reachable, cancelled, pc, err, bootVars, goroutines,
                   tailVars, cb, histVars>>

\* The parent context is cancelled, or node.Close is called.
Cancel ==
    /\ ~cancelled
    /\ cancelled' = TRUE
    /\ UNCHANGED <<libVars, cfgVars, reachable, conn, pc, err, bootVars, goroutines,
                   tailVars, cb, histVars>>

\* ------------------------------------------------- NewNode, lines 176-291
\* Lines 182-231: context, host, stream handlers, DHT; any of them may fail.
Setup ==
    /\ pc = "setup"
    /\ \E ok \in BOOLEAN :
        /\ pc' = IF ok THEN "bootstrap" ELSE "returned"
        /\ err' = IF ok THEN "none" ELSE "SetupFailed"
    /\ UNCHANGED <<libVars, cfgVars, envVars, bootVars, goroutines, tailVars, cb, histVars>>

\* Faulty variant: the empty list enters the retry loop too.
HasBootstraps_Always(peers) == Len(peers) >= 0

\* Line 235
HasBootstraps(peers) == Len(peers) > 0

BootstrapBranch ==
    /\ pc = "bootstrap"
    /\ IF HasBootstraps(anchors)
       THEN /\ pc' = "loop"
            /\ numConnected' = 0
            /\ bootstrapAttempts' = 0
       ELSE /\ pc' = "dhtBootstrap"
            /\ UNCHANGED <<numConnected, bootstrapAttempts>>
    /\ UNCHANGED <<libVars, cfgVars, envVars, err, sleepDuration, sleepI, peerIdx,
                   goroutines, tailVars, cb, histVars>>

\* Faulty variant: one round too many.
BootLoopCond_OffByOne(n, attempts) == n = 0 /\ attempts <= MaxConnAttempts

\* Faulty variant: the loop does not stop on a connection.
BootLoopCond_IgnoreCount(n, attempts) == attempts < MaxConnAttempts

\* Line 242
BootLoopCond(n, attempts) == n = 0 /\ attempts < MaxConnAttempts

\* Lines 242-246
LoopTest ==
    /\ pc = "loop"
    /\ IF BootLoopCond(numConnected, bootstrapAttempts)
       THEN IF bootstrapAttempts > 0
            THEN /\ sleepDuration' = Pow2(bootstrapAttempts)
                 /\ sleepI' = 0
                 /\ pc' = "sleep"
            ELSE /\ pc' = "round"
                 /\ UNCHANGED <<sleepDuration, sleepI>>
       ELSE /\ pc' = "afterLoop"
            /\ UNCHANGED <<sleepDuration, sleepI>>
    /\ UNCHANGED <<libVars, cfgVars, envVars, err, numConnected, bootstrapAttempts, peerIdx,
                   goroutines, tailVars, cb, histVars>>

\* Lines 247-250: one iteration, time.Sleep(time.Second); the context is not read.
BootSleepSecond ==
    /\ pc = "sleep"
    /\ sleepI < sleepDuration
    /\ sleepI' = sleepI + 1
    /\ bootSlept' = bootSlept + 1
    /\ pc' = IF sleepI + 1 < sleepDuration THEN "sleep" ELSE "round"
    /\ UNCHANGED <<libVars, cfgVars, envVars, err, numConnected, bootstrapAttempts,
                   sleepDuration, peerIdx, goroutines, tailVars, cb, dialCount, counted>>

\* Lines 254-258
RoundStart ==
    /\ pc = "round"
    /\ bootstrapAttempts' = bootstrapAttempts + 1
    /\ peerIdx' = 1
    /\ pc' = "spawn"
    /\ UNCHANGED <<libVars, cfgVars, envVars, err, numConnected, sleepDuration, sleepI,
                   goroutines, tailVars, cb, histVars>>

\* Lines 258-273: one iteration of the range: parse, then start the goroutine.
SpawnDial ==
    /\ pc = "spawn"
    /\ IF peerIdx > Len(anchors)
       THEN /\ pc' = "wait"
            /\ UNCHANGED <<err, peerIdx, goroutines>>
       ELSE LET r == AddrInfoFromP2pAddr(anchors[peerIdx]) IN
            IF r.err
            THEN /\ pc' = "returned"
                 /\ err' = "InvalidEndpoint"
                 /\ UNCHANGED <<peerIdx, goroutines>>
            ELSE /\ goroutines' = goroutines \cup {[idx |-> peerIdx, addr |-> r.info]}
                 /\ peerIdx' = peerIdx + 1
                 /\ UNCHANGED <<pc, err>>
    /\ UNCHANGED <<libVars, cfgVars, envVars, numConnected, bootstrapAttempts, sleepDuration,
                   sleepI, tailVars, cb, histVars>>

\* Lines 265-272: the goroutine's body; it runs whether or not NewNode has returned.
GoConnect(g) ==
    /\ g \in goroutines
    /\ conn' = ConnAfterConnect(g.addr.ID)
    /\ dialCount' = [dialCount EXCEPT ![g.addr.ID] = @ + 1]
    /\ goroutines' = goroutines \ {g}
    /\ UNCHANGED <<libVars, cfgVars, reachable, cancelled, pc, err, bootVars, tailVars, cb,
                   bootSlept, counted>>

\* Faulty variant: the round does not wait for its dials.
WaitDone_Any(gs) == TRUE

\* Line 274: wg.Wait()
WaitDone(gs) == gs = {}

Wait ==
    /\ pc = "wait"
    /\ WaitDone(goroutines)
    /\ pc' = "count"
    /\ UNCHANGED <<libVars, cfgVars, envVars, err, bootVars, goroutines, tailVars, cb, histVars>>

\* Lines 277-281: every peer of the host whose state is Connected.
CountConnected == Cardinality(ConnectedPeers)

Count ==
    /\ pc = "count"
    /\ numConnected' = numConnected + CountConnected
    /\ counted' = ConnectedPeers
    /\ pc' = "loop"
    /\ UNCHANGED <<libVars, cfgVars, envVars, err, bootstrapAttempts, sleepDuration, sleepI,
                   peerIdx, goroutines, tailVars, cb, dialCount, bootSlept>>

\* Lines 284-288
AfterLoop ==
    /\ pc = "afterLoop"
    /\ IF numConnected = 0
       THEN /\ pc' = "returned"
            /\ err' = "NoBootstrapConnected"
       ELSE /\ pc' = "dhtBootstrap"
            /\ UNCHANGED err
    /\ UNCHANGED <<libVars, cfgVars, envVars, bootVars, goroutines, tailVars, cb, histVars>>

\* A connection closes before the notifier is registered: nobody is told.
DisconnectUnobserved(p) ==
    /\ ~registered
    /\ conn[p] = Connected
    /\ conn' = [conn EXCEPT ![p] = NotConnected]
    /\ reachable' = [reachable EXCEPT ![p] = FALSE]
    /\ UNCHANGED <<libVars, cfgVars, cancelled, pc, err, bootVars, goroutines, tailVars, cb,
                   histVars>>

Env ==
    \/ \E p \in PeerIDs : BecomeReachable(p)
    \/ \E p \in PeerIDs : BecomeUnreachable(p)
    \/ \E p \in PeerIDs : InboundConnect(p)
    \/ Cancel

NextBoot ==
    \/ Setup
    \/ BootstrapBranch
    \/ LoopTest
    \/ BootSleepSecond
    \/ RoundStart
    \/ SpawnDial
    \/ \E g \in goroutines : GoConnect(g)
    \/ Wait
    \/ Count
    \/ AfterLoop
    \/ \E p \in PeerIDs : DisconnectUnobserved(p)
    \/ Env

\* NewNode up to the end of its bootstrap phase (line 291).
SpecBoot == Init /\ [][NextBoot]_vars

\* ------------------------------------------------- NewNode, lines 293-321
\* Line 293
DHTBootstrap ==
    /\ pc = "dhtBootstrap"
    /\ \E ok \in BOOLEAN :
        /\ pc' = IF ok THEN "register" ELSE "returned"
        /\ err' = IF ok THEN "none" ELSE "DHTBootstrapFailed"
    /\ UNCHANGED <<libVars, cfgVars, envVars, bootVars, goroutines, tailVars, cb, histVars>>

\* Lines 301-304
Register ==
    /\ pc = "register"
    /\ registered' = TRUE
    /\ pc' = "newRD"
    /\ UNCHANGED <<libVars, cfgVars, envVars, err, bootVars, goroutines, routingDiscovery,
                   advIdx, advLog, cb, histVars>>

\* Line 308
NewRoutingDiscovery ==
    /\ pc = "newRD"
    /\ routingDiscovery' = TRUE
    /\ advIdx' = 1
    /\ pc' = "advertise"
    /\ UNCHANGED <<libVars, cfgVars, envVars, err, bootVars, goroutines, registered, advLog,
                   cb, histVars>>

\* Faulty variant: the namespace is not validated.
ValidRendezvous_Any(r) == TRUE

\* Line 310: rendezvous != ""
ValidRendezvous(r) == r # ""

\* Lines 309-320: one iteration of the range over config.Rendezvous, or the return.
AdvertiseNext ==
    /\ pc = "advertise"
    /\ IF advIdx > Len(rendezvous)
       THEN /\ pc' = "returned"
            /\ UNCHANGED <<err, advIdx, advLog>>
       ELSE IF ValidRendezvous(rendezvous[advIdx])
            THEN /\ advLog' = Append(advLog, rendezvous[advIdx])
                 /\ advIdx' = advIdx + 1
                 /\ UNCHANGED <<pc, err>>
            ELSE /\ pc' = "returned"
                 /\ err' = "EmptyRendezvous"
                 /\ UNCHANGED <<advIdx, advLog>>
    /\ UNCHANGED <<libVars, cfgVars, envVars, bootVars, goroutines, registered,
                   routingDiscovery, cb, histVars>>

\* ------------------------------------------------ ReconnectCB, lines 101-173
\* Callback invocations take the slots of cb in order.
FreeSlot(c) == cb[c].pc = "idle" /\ \A d \in CBs : d < c => cb[d].pc # "idle"

\* The host closes the connection to p and calls DisconnectedF in a goroutine of
\* its own.
Disconnect(p, c) ==
    /\ registered
    /\ conn[p] = Connected
    /\ FreeSlot(c)
    /\ conn' = [conn EXCEPT ![p] = NotConnected]
    /\ reachable' = [reachable EXCEPT ![p] = FALSE]
    /\ cb' = [cb EXCEPT ![c] = [IdleCB EXCEPT !.pc = "entry", !.peer = p,
                                              !.ctxAtEntry = cancelled]]
    /\ UNCHANGED <<libVars, cfgVars, cancelled, pc, err, bootVars, goroutines, tailVars,
                   histVars>>

\* Faulty variant: the callback does not look at the context on entry.
EntryCtxDone_Never == FALSE

\* Line 105: node.Ctx.Err() != nil
EntryCtxDone == cancelled

\* Lines 105-107
CBEntry(c) ==
    /\ cb[c].pc = "entry"
    /\ cb' = [cb EXCEPT ![c] =
                IF EntryCtxDone
                THEN [@ EXCEPT !.pc = "returned", !.exit = "cancelledAtEntry"]
                ELSE [@ EXCEPT !.pc = "match"]]
    /\ UNCHANGED <<libVars, cfgVars, envVars, pc, err, bootVars, goroutines, tailVars, histVars>>

\* Faulty variant: every disconnected peer is taken for a bootstrap.
SamePeer_Always(remote, id) == TRUE

\* Line 119: conn.RemotePeer() == addrInfo.ID
SamePeer(remote, id) == remote = id

\* Lines 110-123: the range over cfg.BootstrapPeers from index k on; addrInfo is
\* what the last parse left in it.
RECURSIVE MatchBootstrap(_, _, _, _)
MatchBootstrap(peers, remote, k, addrInfo) ==
    IF k > Len(peers) THEN [isBootstrap |-> FALSE, addrInfo |-> addrInfo]
    ELSE LET r == AddrInfoFromP2pAddr(peers[k]) IN
         IF r.err THEN MatchBootstrap(peers, remote, k + 1, NoAddr)
         ELSE IF SamePeer(remote, r.info.ID)
              THEN [isBootstrap |-> TRUE, addrInfo |-> r.info]
              ELSE MatchBootstrap(peers, remote, k + 1, r.info)

\* Lines 109-135
CBMatch(c) ==
    /\ cb[c].pc = "match"
    /\ LET m == MatchBootstrap(anchors, cb[c].peer, 1, NoAddr) IN
       cb' = [cb EXCEPT ![c] =
                IF ~m.isBootstrap
                THEN [@ EXCEPT !.pc = "returned", !.exit = "notBootstrap",
                               !.addrInfo = m.addrInfo]
                ELSE [@ EXCEPT !.pc = "loop", !.addrInfo = m.addrInfo,
                               !.connAttempts = 0, !.sleepDuration = 0]]
    /\ UNCHANGED <<libVars, cfgVars, envVars, pc, err, bootVars, goroutines, tailVars, histVars>>

\* Faulty variant: one attempt and no retry (an `if` for the `for`).
ReconnLoopCond_NoRetry(c) == conn[cb[c].peer] # Connected /\ cb[c].connAttempts = 0

\* Faulty variant: the loop ends when the dial returned no error.
ReconnLoopCond_DialResult(c) == ~cb[c].dialOk

\* Faulty variant: the loop also ends when the context is cancelled, and falls
\* through to the re-advertisement.
ReconnLoopCond_UntilCancelled(c) == conn[cb[c].peer] # Connected /\ ~cancelled

\* Line 137: net.Connectedness(conn.RemotePeer()) != network.Connected
ReconnLoopCond(c) == conn[cb[c].peer] # Connected

\* Lines 137-141; an invocation is explored for at most cap dials.
CBLoopTest(c, cap) ==
    /\ cb[c].pc = "loop"
    /\ ReconnLoopCond(c) => cb[c].dials < cap
    /\ cb' = [cb EXCEPT ![c] =
                IF ReconnLoopCond(c)
                THEN IF @.connAttempts > 0
                     THEN [@ EXCEPT !.sleepDuration = Pow2(cb[c].connAttempts), !.i = 0,
                                    !.pc = "sleep"]
                     ELSE [@ EXCEPT !.pc = "connect"]
                ELSE [@ EXCEPT !.pc = "advertise", !.advIdx = 1]]
    /\ UNCHANGED <<libVars, cfgVars, envVars, pc, err, bootVars, goroutines, tailVars, histVars>>

\* Faulty variant: the sleep loop does not look at the context.
SleepCtxDone_Never == FALSE

\* Line 148: node.Ctx.Err() != nil
SleepCtxDone == cancelled

\* Lines 143-151: one iteration: time.Sleep(time.Second), then the context check.
CBSleepSecond(c) ==
    /\ cb[c].pc = "sleep"
    /\ cb[c].i < cb[c].sleepDuration
    /\ cb' = [cb EXCEPT ![c] =
                IF SleepCtxDone
                THEN [@ EXCEPT !.slept = @ + 1, !.pc = "returned",
                               !.exit = "cancelledInSleep"]
                ELSE [@ EXCEPT !.slept = @ + 1, !.i = @ + 1,
                               !.pc = IF cb[c].i + 1 < cb[c].sleepDuration
                                      THEN "sleep" ELSE "connect"]]
    /\ UNCHANGED <<libVars, cfgVars, envVars, pc, err, bootVars, goroutines, tailVars, histVars>>

\* Faulty variant: the attempt counter grows without a cap.
BackoffGrows_Always(d) == TRUE

\* Line 163: sleepDuration < MaxBackoffSecs
BackoffGrows(d) == d < MaxBackoffSecs

\* Lines 155-165: the dial, then the attempt counter.
CBConnect(c) ==
    /\ cb[c].pc = "connect"
    /\ conn' = ConnAfterConnect(cb[c].addrInfo.ID)
    /\ cb' = [cb EXCEPT ![c] =
                [@ EXCEPT !.dials = @ + 1,
                          !.dialOk = ConnectSucceeds(cb[c].addrInfo.ID),
                          !.connAttempts = IF BackoffGrows(cb[c].sleepDuration)
                                           THEN @ + 1 ELSE @,
                          !.pc = "loop"]]
    /\ UNCHANGED <<libVars, cfgVars, reachable, cancelled, pc, err, bootVars, goroutines,
                   tailVars, histVars>>

\* Faulty variant: the discovery handle is checked before the namespace.
AdvertiseErr_HandleFirst(r) ==
    IF ~routingDiscovery THEN "NoDiscovery"
    ELSE IF r = "" THEN "EmptyRendezvous"
    ELSE "none"

\* Faulty variant: the discovery handle is not checked.
AdvertiseErr_NoHandleCheck(r) == IF r = "" THEN "EmptyRendezvous" ELSE "none"

\* Lines 81-93: Node.Advertise; "none" when discovery.Advertise is called.
AdvertiseErr(r) ==
    IF r = "" THEN "EmptyRendezvous"
    ELSE IF ~routingDiscovery THEN "NoDiscovery"
    ELSE "none"

\* Lines 169-172: one iteration of the range over cfg.Rendezvous, or the return.
CBAdvertise(c) ==
    /\ cb[c].pc = "advertise"
    /\ cb' = [cb EXCEPT ![c] =
                IF @.advIdx > Len(rendezvous)
                THEN [@ EXCEPT !.pc = "returned", !.exit = "reconnected"]
                ELSE [@ EXCEPT !.advIdx = @ + 1,
                               !.adv = IF AdvertiseErr(rendezvous[cb[c].advIdx]) = "none"
                                       THEN Append(@, rendezvous[cb[c].advIdx])
                                       ELSE @,
                               !.advCalls =
                                   Append(@, [rendezvous |-> rendezvous[cb[c].advIdx],
                                              handle |-> routingDiscovery,
                                              err |-> AdvertiseErr(rendezvous[cb[c].advIdx])])]]
    /\ UNCHANGED <<libVars, cfgVars, envVars, pc, err, bootVars, goroutines, tailVars, histVars>>

CBStep(c) ==
    \/ CBEntry(c)
    \/ CBMatch(c)
    \/ CBLoopTest(c, MaxCBDials)
    \/ CBSleepSecond(c)
    \/ CBConnect(c)
    \/ CBAdvertise(c)

\* The bootstrap phase has just ended in success (line 291): over an empty list,
\* or in its first round with every anchor connected.
InitAfterBoot ==
    /\ InitConfig
    /\ UtilIdle
    /\ SortIdle
    /\ PkgIdle
    /\ NoHandlers
    /\ \A k \in DOMAIN anchors : ~AddrInfoFromP2pAddr(anchors[k]).err
    /\ goroutines = {}
    /\ sleepDuration = 0
    /\ sleepI = 0
    /\ peerIdx = IF anchors = <<>> THEN 0 ELSE Len(anchors) + 1
    /\ counted = AnchorIDs
    /\ conn = [p \in PeerIDs |-> IF p \in counted THEN Connected ELSE NotConnected]
    /\ reachable \in [PeerIDs -> BOOLEAN]
    /\ \A p \in counted : reachable[p]
    /\ cancelled = FALSE
    /\ err = "none"
    /\ numConnected = Cardinality(counted)
    /\ bootstrapAttempts = IF anchors = <<>> THEN 0 ELSE 1
    /\ dialCount = [p \in PeerIDs |->
                      Cardinality({k \in DOMAIN anchors : anchors[k].p2p = p})]
    /\ bootSlept = 0

InitReconnect ==
    /\ InitAfterBoot
    /\ InitTail
    /\ pc = "dhtBootstrap"

\* One notification: what other invocations do to the state this one reads, the
\* connection state, the environment's actions do as well.
FirstCB == CHOOSE c \in CBs : \A d \in CBs : c <= d

NextReconnect ==
    \/ DHTBootstrap
    \/ Register
    \/ NewRoutingDiscovery
    \/ AdvertiseNext
    \/ \E p \in PeerIDs : DisconnectUnobserved(p)
    \/ \E p \in PeerIDs : Disconnect(p, FirstCB)
    \/ CBStep(FirstCB)
    \/ Env

\* NewNode from the end of its bootstrap phase on, and the callback it registers.
SpecReconnect == InitReconnect /\ [][NextReconnect]_vars

\* The same under the scheduler's fairness: a started callback keeps running.
SpecReconnectLive == SpecReconnect /\ WF_vars(CBStep(FirstCB))

\* The host loses the connection to p while the invocation followed is running;
\* the invocation this notification starts is another one.
Lost(p) ==
    /\ registered
    /\ conn[p] = Connected
    /\ cb[FirstCB].pc # "idle"
    /\ conn' = [conn EXCEPT ![p] = NotConnected]
    /\ reachable' = [reachable EXCEPT ![p] = FALSE]
    /\ UNCHANGED <<libVars, cfgVars, cancelled, pc, err, bootVars, goroutines, tailVars, cb,
                   histVars>>

\* NewNode has returned nil: the notifier is registered, every namespace advertised.
InitReturned ==
    /\ InitAfterBoot
    /\ \A k \in DOMAIN rendezvous : rendezvous[k] # ""
    /\ registered = TRUE
    /\ routingDiscovery = TRUE
    /\ advIdx = Len(rendezvous) + 1
    /\ advLog = rendezvous
    /\ cb = [c \in CBs |-> IdleCB]
    /\ pc = "returned"

\* One anchor, one namespace, NewNode has returned nil.
InitRedial ==
    /\ InitReturned
    /\ anchors = <<[transport |-> "/ip4/tcp", p2p |-> "A"]>>
    /\ rendezvous = <<"svc">>

\* One invocation of the callback, followed for MaxRedials dials.
NextRedial ==
    \/ \E p \in PeerIDs : Disconnect(p, FirstCB)
    \/ CBEntry(FirstCB)
    \/ CBMatch(FirstCB)
    \/ CBLoopTest(FirstCB, MaxRedials)
    \/ CBSleepSecond(FirstCB)
    \/ CBConnect(FirstCB)
    \/ CBAdvertise(FirstCB)
    \/ \E p \in PeerIDs : Lost(p)
    \/ Env

SpecRedial == InitRedial /\ [][NextRedial]_vars

NextFlap ==
    \/ \E p \in PeerIDs, c \in CBs : Disconnect(p, c)
    \/ \E c \in CBs : CBStep(c)
    \/ Env

\* The running node: notifications delivered concurrently.
SpecFlap == InitReturned /\ [][NextFlap]_vars

\* ------------------------------- NewNode, lines 182-231, step by step
\* (Setup above is these steps taken as one, with a configuration that has no
\* stream handlers.)
\* Lines 182-211: context, options, libp2p.New; the listen addresses may not
\* parse and the host may fail to start.
NewHost ==
    /\ pc = "newHost"
    /\ \E ok \in BOOLEAN :
        /\ pc' = IF ok THEN "handlers" ELSE "returned"
        /\ err' = IF ok THEN "none" ELSE "HostFailed"
    /\ UNCHANGED <<libVars, cfgVars, envVars, bootVars, goroutines, tailVars, cb, histVars>>

\* Lines 214-217
CheckHandlerLengths ==
    /\ pc = "handlers"
    /\ IF Len(protocolIDs) # Len(streamHandlers)
       THEN /\ pc' = "returned"
            /\ err' = "HandlersMismatch"
            /\ UNCHANGED handlerIdx
       ELSE /\ pc' = "setHandler"
            /\ handlerIdx' = 1
            /\ UNCHANGED err
    /\ UNCHANGED <<pkgVars, utilVars, sortVars, protocolIDs, streamHandlers, hostHandlers,
                   cfgVars, envVars, bootVars, goroutines, tailVars, cb, histVars>>

\* Faulty variant: a nil handler is accepted.
HandlerPairOK_IDOnly(id, h) == id # ""

\* Line 219
HandlerPairOK(id, h) == id # "" /\ h # NilHandler

\* Lines 218-224: one iteration of the range over config.HandlerProtocolIDs, or
\* its end.
SetStreamHandlerNext ==
    /\ pc = "setHandler"
    /\ IF handlerIdx > Len(protocolIDs)
       THEN /\ pc' = "newDHT"
            /\ UNCHANGED <<err, handlerIdx, hostHandlers>>
       ELSE IF HandlerPairOK(protocolIDs[handlerIdx], streamHandlers[handlerIdx])
            THEN /\ hostHandlers' = Append(hostHandlers,
                                           [id |-> protocolIDs[handlerIdx],
                                            handler |-> streamHandlers[handlerIdx]])
                 /\ handlerIdx' = handlerIdx + 1
                 /\ UNCHANGED <<pc, err>>
            ELSE /\ pc' = "returned"
                 /\ err' = "EmptyHandler"
                 /\ UNCHANGED <<handlerIdx, hostHandlers>>
    /\ UNCHANGED <<pkgVars, utilVars, sortVars, protocolIDs, streamHandlers, cfgVars, envVars,
                   bootVars, goroutines, tailVars, cb, histVars>>

\* Lines 226-231
NewDHT ==
    /\ pc = "newDHT"
    /\ \E ok \in BOOLEAN :
        /\ pc' = IF ok THEN "bootstrap" ELSE "returned"
        /\ err' = IF ok THEN "none" ELSE "DHTFailed"
    /\ UNCHANGED <<libVars, cfgVars, envVars, bootVars, goroutines, tailVars, cb, histVars>>

\* NewNode is called with a configuration that has stream handlers and no
\* anchors.
InitSetup ==
    /\ anchors = <<>>
    /\ rendezvous \in SeqsUpTo(Namespaces \ {""}, MaxRendezvous)
    /\ InitTail
    /\ UtilIdle
    /\ SortIdle
    /\ PkgIdle
    /\ protocolIDs \in SeqsUpTo(ProtocolIDs, MaxHandlers)
    /\ streamHandlers \in SeqsUpTo(Handlers, MaxHandlers)
    /\ handlerIdx = 0
    /\ hostHandlers = <<>>
    /\ goroutines = {}
    /\ sleepDuration = 0
    /\ sleepI = 0
    /\ peerIdx = 0
    /\ reachable = [p \in PeerIDs |-> TRUE]
    /\ conn = [p \in PeerIDs |-> NotConnected]
    /\ cancelled = FALSE
    /\ pc = "newHost"
    /\ err = "none"
    /\ numConnected = 0
    /\ bootstrapAttempts = 0
    /\ dialCount = [p \in PeerIDs |-> 0]
    /\ bootSlept = 0
    /\ counted = {}

NextSetup ==
    \/ NewHost
    \/ CheckHandlerLengths
    \/ SetStreamHandlerNext
    \/ NewDHT
    \/ BootstrapBranch
    \/ DHTBootstrap
    \/ Register
    \/ NewRoutingDiscovery
    \/ AdvertiseNext

\* NewNode from its call to its return, over a configuration without anchors.
SpecSetup == InitSetup /\ [][NextSetup]_vars

\* ------------------------------------------- util: src/unnamed/part_004
\* time.Duration: a signed integer of DurationBits bits (64 in the code).
RECURSIVE TwoTo(_)
TwoTo(n) == IF n <= 0 THEN 1 ELSE 2 * TwoTo(n - 1)
MaxDuration == TwoTo(DurationBits - 1) - 1
MinDuration == 0 - TwoTo(DurationBits - 1)
Durations == MinDuration..MaxDuration
\* Go's integer arithmetic: the result is reduced to the width of the type.
WrapDuration(x) ==
    ((x + TwoTo(DurationBits - 1) + TwoTo(DurationBits)) % TwoTo(DurationBits))
        - TwoTo(DurationBits - 1)

\* Faulty variant: no check for negative durations.
NewExpoBackoff_NoSignCheck(init, max) ==
    IF max < init THEN [obj |-> NilBackoff, err |-> "MaxLessThanInit"]
    ELSE [obj |-> [nil |-> FALSE, initPeriod |-> init, maxPeriod |-> max,
                  nextPeriod |-> 0],
          err |-> "none"]

\* Lines 44-57
NewExpoBackoff(init, max) ==
    IF max < init THEN [obj |-> NilBackoff, err |-> "MaxLessThanInit"]
    ELSE IF init < 0 \/ max < 0 THEN [obj |-> NilBackoff, err |-> "Negative"]
    ELSE [obj |-> [nil |-> FALSE, initPeriod |-> init, maxPeriod |-> max,
                  nextPeriod |-> 0],
          err |-> "none"]

\* Faulty variant: the doubled period is not capped.
NextPeriod_NoCap(b) ==
    LET doubled == WrapDuration(b.nextPeriod * 2) IN
    IF doubled < b.initPeriod THEN b.initPeriod ELSE doubled

\* Faulty variant: the doubled period is not raised to the initial period.
NextPeriod_NoFloor(b) ==
    LET doubled == WrapDuration(b.nextPeriod * 2) IN
    IF doubled > b.maxPeriod THEN b.maxPeriod ELSE doubled

\* Lines 32-37: the value of eb.nextPeriod that Sleep() leaves and sleeps for.
NextPeriod(b) ==
    LET doubled == WrapDuration(b.nextPeriod * 2) IN
    IF doubled < b.initPeriod THEN b.initPeriod
    ELSE IF doubled > b.maxPeriod THEN b.maxPeriod
    ELSE doubled

\* Faulty variant: no check of the number of attempts.
NewExpoBackoffAttempts_AnyAttempts(init, max, attempts) ==
    LET r == NewExpoBackoff(init, max) IN
    IF r.err # "none" THEN [backoff |-> NilBackoff, obj |-> NilAttempts, err |-> r.err]
    ELSE [backoff |-> r.obj,
          obj |-> [nil |-> FALSE, maxAttempts |-> attempts, attempt |-> 0],
          err |-> "none"]

\* Lines 95-111
NewExpoBackoffAttempts(init, max, attempts) ==
    LET r == NewExpoBackoff(init, max) IN
    IF r.err # "none" THEN [backoff |-> NilBackoff, obj |-> NilAttempts, err |-> r.err]
    ELSE IF attempts < 1 THEN [backoff |-> NilBackoff, obj |-> NilAttempts, err |-> "NoAttempts"]
    ELSE [backoff |-> r.obj,
          obj |-> [nil |-> FALSE, maxAttempts |-> attempts, attempt |-> 0],
          err |-> "none"]

\* Faulty variant: one attempt too many.
AttemptsUsedUp_OffByOne(a) == a.attempt > a.maxAttempts

\* Line 80: eba.attempt >= eba.maxAttempts
AttemptsUsedUp(a) == a.attempt >= a.maxAttempts

\* The program calls NewExpoBackoff.
CallNewExpoBackoff ==
    /\ ebPc = "start"
    /\ \E init \in Durations, max \in Durations :
        LET r == NewExpoBackoff(init, max) IN
        /\ ebArgs' = [fn |-> "NewExpoBackoff", init |-> init, max |-> max,
                      attempts |-> 0]
        /\ eb' = r.obj
        /\ ebErr' = r.err
        /\ ebPc' = IF r.err = "none" THEN "backoff" ELSE "failed"
    /\ UNCHANGED <<nodeVars, handlerVars, pkgVars, sortVars, eba, sleeps, rets>>

\* The program calls NewExpoBackoffAttempts.
CallNewExpoBackoffAttempts ==
    /\ ebPc = "start"
    /\ \E init \in Durations, max \in Durations, attempts \in (0 - 1)..MaxAttemptsArg :
        LET r == NewExpoBackoffAttempts(init, max, attempts) IN
        /\ ebArgs' = [fn |-> "NewExpoBackoffAttempts", init |-> init, max |-> max,
                      attempts |-> attempts]
        /\ eb' = r.backoff
        /\ eba' = r.obj
        /\ ebErr' = r.err
        /\ ebPc' = IF r.err = "none" THEN "attempts" ELSE "failed"
    /\ UNCHANGED <<nodeVars, handlerVars, pkgVars, sortVars, sleeps, rets>>

\* Lines 31-39: ExpoBackoff.Sleep() called by the program.
Sleep ==
    /\ ebPc = "backoff"
    /\ Len(sleeps) < MaxCalls
    /\ eb' = [eb EXCEPT !.nextPeriod = NextPeriod(eb)]
    /\ sleeps' = Append(sleeps, NextPeriod(eb))
    /\ UNCHANGED <<nodeVars, handlerVars, pkgVars, sortVars, ebPc, ebArgs, eba, ebErr, rets>>

\* Lines 79-90: ExpoBackoffAttempts.Attempt() called by the program.
Attempt ==
    /\ ebPc = "attempts"
    /\ Len(rets) < MaxCalls
    /\ IF AttemptsUsedUp(eba)
       THEN /\ rets' = Append(rets, [ret |-> FALSE, sleeps |-> 0])
            /\ UNCHANGED <<eb, eba, sleeps>>
       ELSE IF eba.attempt = 0
       THEN /\ eba' = [eba EXCEPT !.attempt = @ + 1]
            /\ rets' = Append(rets, [ret |-> TRUE, sleeps |-> 0])
            /\ UNCHANGED <<eb, sleeps>>
       ELSE /\ eba' = [eba EXCEPT !.attempt = @ + 1]
            /\ eb' = [eb EXCEPT !.nextPeriod = NextPeriod(eb)]
            /\ sleeps' = Append(sleeps, NextPeriod(eb))
            /\ rets' = Append(rets, [ret |-> TRUE, sleeps |-> 1])
    /\ UNCHANGED <<nodeVars, handlerVars, pkgVars, sortVars, ebPc, ebArgs, ebErr>>

\* No node is constructed: the program uses package util alone.
NodeIdle ==
    /\ anchors = <<>>
    /\ rendezvous = <<>>
    /\ InitTail
    /\ goroutines = {}
    /\ sleepDuration = 0
    /\ sleepI = 0
    /\ peerIdx = 0
    /\ reachable = [p \in PeerIDs |-> FALSE]
    /\ conn = [p \in PeerIDs |-> NotConnected]
    /\ cancelled = FALSE
    /\ pc = "notCalled"
    /\ err = "none"
    /\ numConnected = 0
    /\ bootstrapAttempts = 0
    /\ dialCount = [p \in PeerIDs |-> 0]
    /\ bootSlept = 0
    /\ counted = {}

InitBackoff == NodeIdle /\ UtilIdle /\ SortIdle /\ NoHandlers /\ PkgIdle

NextBackoff ==
    \/ CallNewExpoBackoff
    \/ CallNewExpoBackoffAttempts
    \/ Sleep
    \/ Attempt

\* A program that constructs one backoff object and calls it repeatedly.
SpecBackoff == InitBackoff /\ [][NextBackoff]_vars

\* ------------------------- p2putil: src/p2putil/p2putil.go, lines 30-77
Candidates == {[ID |-> id, addrs |-> n] : id \in PeerIDs, n \in 0..1}
RTTs == 0..MaxRTT
PeerInfo(id, rtt) == [Perf |-> [RTT |-> rtt], ID |-> id]

\* Faulty variant: the comparison is reversed.
PerfIndCompare_Greater(l, r) == l.RTT > r.RTT

\* Lines 43-50: PerfInd.Compare through PerfIndCompare (PerfInd.LessThan in
\* part_005, lines 47-49).
PerfIndCompare(l, r) == l.RTT < r.RTT

\* Lines 72-74: sort.Slice with the less function of line 73.  The sort is not
\* stable: it leaves any arrangement of the elements in which no element is
\* less than one before it.
SortSlice(s) ==
    {t \in {[i \in DOMAIN s |-> s[f[i]]] : f \in Permutations(DOMAIN s)} :
        \A i \in DOMAIN t, j \in DOMAIN t :
            i < j => ~PerfIndCompare(t[j].Perf, t[i].Perf)}

\* Faulty variant: a candidate without a measure is kept.
Skipped_AddrsOnly(p, rtt) == p.addrs = 0

\* Line 65: len(p.Addrs) == 0 || result.RTT == 0
Skipped(p, rtt) == p.addrs = 0 \/ rtt = 0

\* Faulty variant: the probes have no deadline.
ProbeCtxDone_Never == FALSE

\* Line 61: the context of the probes is done when the deadline has passed or
\* node.Ctx is cancelled.
ProbeCtxDone == timedOut \/ cancelled

\* The program calls SortPeers; line 61 starts the one-second deadline.
CallSortPeers ==
    /\ spPc = "notCalled"
    /\ spPc' = "recv"
    /\ UNCHANGED <<nodeVars, handlerVars, pkgVars, utilVars, chanClosed, timedOut, cur, received, lastProbe, spPeers,
                   result>>

\* The deadline of line 61 passes while SortPeers is in its range loop.
Timeout ==
    /\ spPc \in {"recv", "ping"}
    /\ ~timedOut
    /\ timedOut' = TRUE
    /\ UNCHANGED <<nodeVars, handlerVars, pkgVars, utilVars, spPc, chanClosed, cur, received, lastProbe, spPeers, result>>

\* The producer closes peerChan.
CloseChan ==
    /\ ~chanClosed
    /\ chanClosed' = TRUE
    /\ UNCHANGED <<nodeVars, handlerVars, pkgVars, utilVars, spPc, timedOut, cur, received, lastProbe, spPeers, result>>

\* Lines 62-63: the range loop receives the candidate the producer sends, and
\* starts its probe.
RecvUpTo(cap) ==
    /\ spPc = "recv"
    /\ ~chanClosed
    /\ received < cap
    /\ \E p \in Candidates : cur' = p
    /\ received' = received + 1
    /\ spPc' = "ping"
    /\ UNCHANGED <<nodeVars, handlerVars, pkgVars, utilVars, chanClosed, timedOut, lastProbe, spPeers, result>>

Recv == RecvUpTo(MaxPeers)

\* Lines 64-68: the first result of the probe arrives: a measure, or no measure
\* (RTT 0) when the probe failed or its context is done.
PingResult ==
    /\ spPc = "ping"
    /\ \E rtt \in (IF ProbeCtxDone THEN {0} ELSE RTTs) :
         /\ spPeers' = IF Skipped(cur, rtt) THEN spPeers
                       ELSE Append(spPeers, PeerInfo(cur.ID, rtt))
         /\ lastProbe' = [rtt |-> rtt, ctxDone |-> ProbeCtxDone]
    /\ spPc' = "recv"
    /\ UNCHANGED <<nodeVars, handlerVars, pkgVars, utilVars, chanClosed, timedOut, cur, received, result>>

\* Faulty variant: the loop also gives up waiting for candidates at the deadline.
RangeEnds_AtDeadline == chanClosed \/ ProbeCtxDone

\* Line 62: `range peerChan` ends when the channel is closed, and only then.
RangeEnds == chanClosed

\* Lines 62, 70: the range loop ends when peerChan is closed.
RangeDone ==
    /\ spPc = "recv"
    /\ RangeEnds
    /\ spPc' = "sort"
    /\ UNCHANGED <<nodeVars, handlerVars, pkgVars, utilVars, chanClosed, timedOut, cur, received, lastProbe, spPeers,
                   result>>

\* Lines 72-76
SortAndReturn ==
    /\ spPc = "sort"
    /\ result' \in SortSlice(spPeers)
    /\ spPc' = "returned"
    /\ UNCHANGED <<nodeVars, handlerVars, pkgVars, utilVars, chanClosed, timedOut, cur, received, lastProbe, spPeers>>

\* SortPeers is called with a running node that has no anchors.
InitSort ==
    /\ InitReturned
    /\ anchors = <<>>
    /\ rendezvous = <<>>
    /\ reachable = [p \in PeerIDs |-> TRUE]

NextSort ==
    \/ CallSortPeers
    \/ Timeout
    \/ CloseChan
    \/ Recv
    \/ PingResult
    \/ RangeDone
    \/ SortAndReturn
    \/ Cancel

\* One call of SortPeers, its producer, its probes and its deadline.
SpecSort == InitSort /\ [][NextSort]_vars

\* A call with a producer of at most MaxProbes candidates, with time passing and
\* the goroutine of SortPeers scheduled: the
\* deadline arrives, a probe whose context is done delivers its (empty) result,
\* and the steps of SortPeers that wait for nothing are taken. The producer owes
\* nothing: neither a candidate nor the close.
NextSortLive ==
    \/ CallSortPeers
    \/ Timeout
    \/ CloseChan
    \/ RecvUpTo(MaxProbes)
    \/ PingResult
    \/ RangeDone
    \/ SortAndReturn
    \/ Cancel

SpecSortLive ==
    /\ InitSort
    /\ [][NextSortLive]_vars
    /\ WF_vars(Timeout)
    /\ WF_vars(PingResult /\ ProbeCtxDone)
    /\ WF_vars(RangeDone)
    /\ WF_vars(SortAndReturn)

\* ==================================================================== claims
AllParse == \A k \in DOMAIN anchors : ~AddrInfoFromP2pAddr(anchors[k]).err
\* Entries of the anchor list that name peer p.
EntriesFor(p) == Cardinality({k \in DOMAIN anchors : anchors[k].p2p = p})
BootSucceeded == pc = "dhtBootstrap"
BootEnded == pc \in {"dhtBootstrap", "returned"} /\ err # "SetupFailed"
NoDialYet == (\A p \in PeerIDs : dialCount[p] = 0) /\ goroutines = {}
\* Seconds slept before round k: 2 + 4 + ... + 2^(k-1).
SleptBefore(k) == Pow2(k) - 2

\* C1: with a non-empty anchor list, the bootstrap phase succeeds only if an
\* anchor was found Connected by the count, and no peer outside the anchor list
\* is ever counted.
C1_OnlyAnchorsCount ==
    /\ counted \subseteq AnchorIDs
    /\ (BootSucceeded /\ anchors # <<>>) => counted \cap AnchorIDs # {}

\* C2 (as stated): with a non-empty anchor list, if no peer is ever counted
\* Connected, the phase ends with NoBootstrapConnected after exactly
\* MaxConnAttempts rounds, each anchor dialed once per round.
C2_ExactlyNRounds ==
    /\ bootstrapAttempts <= MaxConnAttempts
    /\ (BootEnded /\ anchors # <<>> /\ numConnected = 0) =>
          /\ err = "NoBootstrapConnected"
          /\ bootstrapAttempts = MaxConnAttempts
          /\ \A p \in PeerIDs : dialCount[p] = MaxConnAttempts * EntriesFor(p)

\* C2 (amended): the same, for an anchor list whose every endpoint parses; every
\* completed round has dialed every anchor once.
C2_ExactlyNRoundsWhenAllParse ==
    (anchors # <<>> /\ AllParse) =>
        /\ bootstrapAttempts <= MaxConnAttempts
        /\ pc \in {"count", "loop", "sleep", "round", "afterLoop"} =>
              \A p \in PeerIDs : dialCount[p] = bootstrapAttempts * EntriesFor(p)
        /\ (BootEnded /\ numConnected = 0) =>
              /\ err = "NoBootstrapConnected"
              /\ bootstrapAttempts = MaxConnAttempts
              /\ \A p \in PeerIDs : dialCount[p] = MaxConnAttempts * EntriesFor(p)

C2_Witness ==
    /\ pc = "returned"
    /\ err = "NoBootstrapConnected"
    /\ Len(anchors) = 2
    /\ AllParse
    /\ bootstrapAttempts = MaxConnAttempts

\* C3: once the count is positive the bootstrap phase is over: it goes to
\* success without another sleep, round or dial; and a successful phase over a
\* non-empty list ended with a positive count after exactly the sleeps of the
\* rounds it ran.
C3_StopsWhenConnected ==
    [][ /\ (pc \in {"loop", "afterLoop"} /\ numConnected > 0) =>
             /\ pc' \in {"loop", "afterLoop", "dhtBootstrap"}
             /\ err' = "none"
             /\ bootstrapAttempts' = bootstrapAttempts
             /\ bootSlept' = bootSlept
             /\ dialCount' = dialCount
             /\ goroutines' = {}
        /\ (BootSucceeded' /\ anchors # <<>>) =>
             /\ numConnected' >= 1
             /\ bootstrapAttempts' \in 1..MaxConnAttempts
             /\ bootSlept' = SleptBefore(bootstrapAttempts')
      ]_vars

\* Anchor A first counted in round 3, anchor B not connected: success in round 3.
C3_Witness ==
    /\ BootSucceeded
    /\ Len(anchors) = 2 /\ anchors[1].p2p = "A" /\ anchors[2].p2p = "B"
    /\ bootstrapAttempts = 3
    /\ counted = {"A"}
    /\ dialCount["B"] = 3
    /\ bootSlept = 6

\* C4: with an empty anchor list the phase never dials, sleeps, counts or fails
\* with NoBootstrapConnected: it goes straight past the retry loop.
C4_EmptyListNoDial ==
    anchors = <<>> =>
        /\ NoDialYet
        /\ bootSlept = 0
        /\ numConnected = 0
        /\ bootstrapAttempts = 0
        /\ err # "NoBootstrapConnected"
        /\ pc \in {"setup", "bootstrap", "dhtBootstrap", "returned"}

C4_Witness == anchors = <<>> /\ BootSucceeded /\ ConnectedPeers = {}

\* C5: when NewNode fails with InvalidEndpoint, Host.Connect has been called for
\* no anchor.
C5_InvalidEndpointBeforeAnyDial ==
    err = "InvalidEndpoint" => \A p \in PeerIDs : dialCount[p] = 0

\* ---------------------------------------------------------------- callbacks
InRetryLoop(c) == cb[c].pc \in {"loop", "sleep", "connect"}
Dialing(c) == cb[c].pc \in {"sleep", "connect"}
NoAction(c) == cb[c].dials = 0 /\ cb[c].slept = 0 /\ cb[c].adv = <<>>

\* C6: no two invocations of the callback for the same anchor are in their dial
\* sequences at the same time.
C6_OneLoopPerAnchor ==
    \A c, d \in CBs :
        (c # d /\ Dialing(c) /\ Dialing(d)) => cb[c].peer # cb[d].peer

\* C7: an invocation leaves its retry loop only because the host reports the
\* anchor Connected or because the context is cancelled, never for the number
\* of attempts made; and when the context is never cancelled and the anchor is
\* from some point on reachable for good, the invocation in the loop ends
\* Reconnected (or uses up the dials explored).
C7_RetriesUntilReconnected ==
    /\ [][ \A c \in CBs :
             (InRetryLoop(c) /\ ~InRetryLoop(c)') =>
                 \/ cb'[c].pc = "advertise" /\ conn[cb[c].peer] = Connected
                 \/ cb'[c].exit = "cancelledInSleep" /\ cancelled ]_vars
    /\ ([]~cancelled /\ <>[](InRetryLoop(FirstCB) => reachable[cb[FirstCB].peer])) =>
          [](InRetryLoop(FirstCB) =>
                <>(cb[FirstCB].exit = "reconnected" \/ cb[FirstCB].dials = MaxCBDials))

\* A second dial followed a failed one, and the invocation ended Reconnected.
C7_Witness ==
    \E c \in CBs : cb[c].exit = "reconnected" /\ cb[c].dials = 2 /\ cb[c].slept = 2

\* C8: an invocation that ends Reconnected has passed every namespace of the
\* configuration to the discovery collaborator.
C8_ReadvertisesAll ==
    \A c \in CBs :
        cb[c].exit = "reconnected" =>
            \A k \in DOMAIN rendezvous :
                rendezvous[k] # "" => rendezvous[k] \in Range(cb[c].adv)

\* C9: an invocation for a peer that is no anchor dials nothing, sleeps nothing
\* and advertises nothing.
C9_NonAnchorIgnored ==
    \A c \in CBs :
        (cb[c].pc # "idle" /\ cb[c].peer \notin AnchorIDs) =>
            /\ NoAction(c)
            /\ cb[c].pc \in {"entry", "match", "returned"}
            /\ cb[c].exit \in {"none", "cancelledAtEntry", "notBootstrap"}

C9_Witness ==
    \E c \in CBs :
        /\ cb[c].pc = "returned"
        /\ cb[c].exit = "notBootstrap"
        /\ anchors # <<>>

\* C10: an invocation delivered when the context is already cancelled dials
\* nothing, sleeps nothing and advertises nothing.
C10_CancelledIgnored ==
    \A c \in CBs :
        cb[c].ctxAtEntry =>
            /\ NoAction(c)
            /\ cb[c].pc \in {"entry", "returned"}
            /\ cb[c].exit \in {"none", "cancelledAtEntry"}

C10_Witness ==
    \E c \in CBs :
        /\ cb[c].ctxAtEntry
        /\ cb[c].pc = "returned"
        /\ cb[c].peer \in AnchorIDs

\* C11: when the context is cancelled while an invocation is in its backoff
\* sleep, the invocation does nothing more than end: its next step returns
\* (Cancelled) after the second of sleep under way, the seconds left of the
\* sleep are not slept, no dial follows, and under fair scheduling it does end.
C11_CancelInSleepEnds ==
    /\ [][ \A c \in CBs :
             (cb[c].pc = "sleep" /\ cancelled) =>
                 /\ cb'[c].dials = cb[c].dials
                 /\ cb'[c].adv = cb[c].adv
                 /\ cb'[c] # cb[c] =>
                       /\ cb'[c].pc = "returned"
                       /\ cb'[c].exit = "cancelledInSleep"
                       /\ cb'[c].i = cb[c].i
                       /\ cb'[c].slept = cb[c].slept + 1 ]_vars
    /\ [][ \A c \in CBs : cb[c].exit = "cancelledInSleep" => cb'[c] = cb[c] ]_vars
    /\ (cb[FirstCB].pc = "sleep" /\ cancelled) ~> (cb[FirstCB].exit = "cancelledInSleep")

\* Cancelled in the first second of the two-second sleep before the second dial.
C11_Witness ==
    \E c \in CBs :
        /\ cb[c].exit = "cancelledInSleep"
        /\ cb[c].dials = 1
        /\ cb[c].sleepDuration = 2
        /\ cb[c].slept = 1

\* The calls of discovery.Advertise that the first k calls of Node.Advertise of
\* the invocation made.
RECURSIVE DiscoveryCalls(_, _)
DiscoveryCalls(calls, k) ==
    IF k = 0 THEN <<>>
    ELSE IF calls[k].err = "none"
         THEN Append(DiscoveryCalls(calls, k - 1), calls[k].rendezvous)
         ELSE DiscoveryCalls(calls, k - 1)

\* C18: Node.Advertise("") returns the EmptyRendezvous error and makes no call
\* of discovery.Advertise, with a discovery handle and without one.
C18_EmptyRendezvousRefused ==
    /\ \A c \in CBs :
          /\ cb[c].adv = DiscoveryCalls(cb[c].advCalls, Len(cb[c].advCalls))
          /\ \A k \in DOMAIN cb[c].advCalls :
                cb[c].advCalls[k].rendezvous = "" =>
                    cb[c].advCalls[k].err = "EmptyRendezvous"
          /\ \A k \in DOMAIN cb[c].adv : cb[c].adv[k] # ""
    /\ \A k \in DOMAIN advLog : advLog[k] # ""
    /\ (pc = "returned" /\ advIdx \in DOMAIN rendezvous) =>
          (rendezvous[advIdx] = "" /\ err = "EmptyRendezvous")

\* One invocation called Advertise("") before the discovery handle existed and
\* again after.
C18_Witness ==
    \E c \in CBs :
        /\ Len(cb[c].advCalls) = 2
        /\ cb[c].advCalls[1] = [rendezvous |-> "", handle |-> FALSE,
                                err |-> "EmptyRendezvous"]
        /\ cb[c].advCalls[2] = [rendezvous |-> "", handle |-> TRUE,
                                err |-> "EmptyRendezvous"]
        /\ cb[c].adv = <<>>

\* C19: Node.Advertise of a non-empty namespace without a discovery handle
\* returns the NoDiscovery error and makes no call of discovery.Advertise; with
\* a handle it calls discovery.Advertise for the namespace and returns nil.
C19_NeedsDiscoveryHandle ==
    /\ \A c \in CBs :
          /\ cb[c].adv = DiscoveryCalls(cb[c].advCalls, Len(cb[c].advCalls))
          /\ \A k \in DOMAIN cb[c].advCalls :
                cb[c].advCalls[k].rendezvous # "" =>
                    cb[c].advCalls[k].err =
                        IF cb[c].advCalls[k].handle THEN "none" ELSE "NoDiscovery"
    /\ advLog # <<>> => routingDiscovery

\* One invocation called Advertise("svc") before the discovery handle existed
\* and again after.
C19_Witness ==
    \E c \in CBs :
        /\ Len(cb[c].advCalls) = 2
        /\ cb[c].advCalls[1] = [rendezvous |-> "svc", handle |-> FALSE,
                                err |-> "NoDiscovery"]
        /\ cb[c].advCalls[2] = [rendezvous |-> "svc", handle |-> TRUE, err |-> "none"]
        /\ cb[c].adv = <<"svc">>

\* C24: a configuration with an empty namespace makes NewNode fail; NewNode
\* stops at the first empty namespace, having passed to the discovery
\* collaborator the namespaces before it and nothing else; no empty namespace
\* ever reaches the discovery collaborator.
C24_EmptyNamespaceFails ==
    /\ (pc = "returned" /\ \E k \in DOMAIN rendezvous : rendezvous[k] = "") =>
          err # "none"
    /\ err = "EmptyRendezvous" =>
          /\ pc = "returned"
          /\ advIdx \in DOMAIN rendezvous
          /\ rendezvous[advIdx] = ""
          /\ advLog = SubSeq(rendezvous, 1, advIdx - 1)
    /\ "" \notin Range(advLog)
    /\ \A c \in CBs : "" \notin Range(cb[c].adv)

\* The second namespace is empty: the first was advertised, then NewNode failed.
C24_Witness ==
    /\ pc = "returned"
    /\ err = "EmptyRendezvous"
    /\ rendezvous = <<"svc", "">>
    /\ advLog = <<"svc">>

\* ----------------------------------------------------------- stream handlers
\* Every protocol ID has a handler at its index, and neither is empty.
PairOneToOne ==
    /\ Len(protocolIDs) = Len(streamHandlers)
    /\ \A i \in DOMAIN protocolIDs :
          protocolIDs[i] # "" /\ streamHandlers[i] # NilHandler
PastHandlers ==
    pc \notin {"newHost", "handlers", "setHandler"}
        /\ ~(pc = "returned" /\ err \in {"HostFailed", "HandlersMismatch", "EmptyHandler"})

\* C23: NewNode gets past the registration of the stream handlers only with
\* protocol IDs and handlers that pair one-to-one, every pair registered with
\* the host; with lists of different lengths it fails before it registers
\* any handler, with an empty element it fails at that element.
C23_HandlersPairOneToOne ==
    /\ PastHandlers =>
          /\ PairOneToOne
          /\ hostHandlers = [i \in DOMAIN protocolIDs |->
                                [id |-> protocolIDs[i], handler |-> streamHandlers[i]]]
    /\ (~PairOneToOne /\ pc = "returned") =>
          err \in {"HostFailed", "HandlersMismatch", "EmptyHandler"}
    /\ err = "HandlersMismatch" =>
          (Len(protocolIDs) # Len(streamHandlers) /\ hostHandlers = <<>>)
    /\ err = "EmptyHandler" =>
          /\ Len(protocolIDs) = Len(streamHandlers)
          /\ handlerIdx \in DOMAIN protocolIDs
          /\ protocolIDs[handlerIdx] = "" \/ streamHandlers[handlerIdx] = NilHandler
          /\ Len(hostHandlers) = handlerIdx - 1
    /\ \A i \in DOMAIN hostHandlers :
          hostHandlers[i].id # "" /\ hostHandlers[i].handler # NilHandler

\* The second handler is nil: NewNode fails there.
C23_Witness ==
    /\ pc = "returned"
    /\ err = "EmptyHandler"
    /\ protocolIDs = <<"/proto", "/proto">>
    /\ streamHandlers = <<"handler", NilHandler>>
    /\ Len(hostHandlers) = 1

\* ------------------------------------------------------------------ backoff
Min(a, b) == IF a <= b THEN a ELSE b
ValidPeriods(init, max) == 0 <= init /\ init <= max

\* C12: after every call of Sleep() on a backoff constructed with
\* 0 <= init <= max, the current delay is the duration just slept and lies
\* between init and max.
C12_DelayWithinBounds ==
    (~eb.nil /\ sleeps # <<>>) =>
        /\ ValidPeriods(eb.initPeriod, eb.maxPeriod)
        /\ eb.nextPeriod = sleeps[Len(sleeps)]
        /\ \A k \in DOMAIN sleeps :
              eb.initPeriod <= sleeps[k] /\ sleeps[k] <= eb.maxPeriod

\* Doubling 3 passed max = 5 and was capped.
C12_Witness ==
    /\ ebPc = "backoff"
    /\ ebArgs.init = 3 /\ ebArgs.max = 5
    /\ sleeps = <<3, 5, 5>>

\* C13: the first Sleep() on a fresh backoff sleeps for exactly init.
C13_FirstSleepIsInit ==
    (ebPc = "backoff" /\ sleeps # <<>>) => sleeps[1] = ebArgs.init

C13_Witness ==
    /\ ebPc = "backoff"
    /\ ebArgs.init = 3
    /\ Len(sleeps) = 1
    /\ sleeps[1] = 3

\* The calls of Attempt() that returned true.
TrueRets == {k \in DOMAIN rets : rets[k].ret}

\* C14: with maxAttempts = N >= 1, call k of Attempt() returns true exactly
\* when k <= N; the first call sleeps not at all, calls 2..N make one backoff
\* sleep each, a call returning false makes none; the counter never exceeds N.
C14_ExactlyNAttempts ==
    ebPc = "attempts" =>
        /\ eba.maxAttempts = ebArgs.attempts
        /\ eba.maxAttempts >= 1
        /\ eba.attempt <= eba.maxAttempts
        /\ eba.attempt = Min(Len(rets), eba.maxAttempts)
        /\ \A k \in DOMAIN rets :
              /\ rets[k].ret = (k <= eba.maxAttempts)
              /\ rets[k].sleeps = IF 1 < k /\ k <= eba.maxAttempts THEN 1 ELSE 0
        /\ Len(sleeps) = IF rets = <<>> THEN 0 ELSE eba.attempt - 1

\* Three attempts allowed, five calls made: true, true, true, false, false.
C14_Witness ==
    /\ ebPc = "attempts"
    /\ eba.maxAttempts = 3
    /\ Len(rets) = 5
    /\ TrueRets = 1..3
    /\ Len(sleeps) = 2

\* init * 2^(k-1), in unbounded arithmetic.
Doubled(init, k) == init * TwoTo(k - 1)

\* C15: a loop over Attempt() with init > 0 runs its body N times and sleeps
\* N - 1 times, sleep k lasting min(init * 2^(k-1), max).
C15_SleepsDoubleUpToMax ==
    (ebPc = "attempts" /\ ebArgs.init > 0) =>
        /\ \A k \in DOMAIN sleeps : sleeps[k] = Min(Doubled(ebArgs.init, k), ebArgs.max)
        /\ (rets # <<>> /\ ~rets[Len(rets)].ret) =>
              /\ Cardinality(TrueRets) = ebArgs.attempts
              /\ Len(sleeps) = ebArgs.attempts - 1

\* C16: NewExpoBackoff fails, returning no object, exactly when max < init or
\* one of them is negative; otherwise it returns a fresh backoff with these
\* periods.
C16_NewExpoBackoffValidates ==
    ebArgs.fn = "NewExpoBackoff" =>
        /\ (ebErr # "none") <=> ~ValidPeriods(ebArgs.init, ebArgs.max)
        /\ (ebErr # "none") => (eb.nil /\ ebPc = "failed")
        /\ (ebErr = "none") =>
              /\ ~eb.nil
              /\ eb.initPeriod = ebArgs.init
              /\ eb.maxPeriod = ebArgs.max

\* Negative init with a valid max is refused.
C16_Witness ==
    /\ ebArgs.fn = "NewExpoBackoff"
    /\ ebArgs.init < 0
    /\ ebArgs.max > 0
    /\ ebErr = "Negative"
    /\ eb.nil

\* C17: NewExpoBackoffAttempts fails, returning no object, exactly when the
\* periods are invalid or attempts < 1; with valid periods and attempts < 1
\* the error is the one about the number of attempts.
C17_NewExpoBackoffAttemptsValidates ==
    ebArgs.fn = "NewExpoBackoffAttempts" =>
        /\ (ebErr = "none") <=>
              (ValidPeriods(ebArgs.init, ebArgs.max) /\ ebArgs.attempts >= 1)
        /\ (ebErr # "none") => (eba.nil /\ eb.nil /\ ebPc = "failed")
        /\ (ValidPeriods(ebArgs.init, ebArgs.max) /\ ebArgs.attempts < 1) =>
              ebErr = "NoAttempts"
        /\ (ebErr = "none") =>
              /\ ~eba.nil
              /\ eba.maxAttempts = ebArgs.attempts
              /\ eb.initPeriod = ebArgs.init
              /\ eb.maxPeriod = ebArgs.max

\* Valid periods, zero attempts.
C17_Witness ==
    /\ ebArgs.fn = "NewExpoBackoffAttempts"
    /\ ebArgs.init = 1
    /\ ebArgs.max = 8
    /\ ebArgs.attempts = 0
    /\ ebErr = "NoAttempts"
    /\ eba.nil

\* ---------------------------------------------------------------- SortPeers
\* C20: the sequence SortPeers returns is in non-decreasing order of RTT.
C20_ResultSortedByRTT ==
    spPc = "returned" =>
        \A i \in DOMAIN result, j \in DOMAIN result :
            i < j => result[i].Perf.RTT <= result[j].Perf.RTT

\* Four candidates received, measured 3, 1, 2 and one without a measure: the
\* result is 1, 2, 3.
C20_Witness ==
    /\ spPc = "returned"
    /\ received = 4
    /\ Len(spPeers) = 3
    /\ spPeers[1].Perf.RTT = 3 /\ spPeers[2].Perf.RTT = 1 /\ spPeers[3].Perf.RTT = 2
    /\ Len(result) = 3
    /\ result[1].Perf.RTT = 1 /\ result[2].Perf.RTT = 2 /\ result[3].Perf.RTT = 3

\* t is an arrangement of the elements of s, each as often as in s.
IsArrangement(t, s) ==
    /\ DOMAIN t = DOMAIN s
    /\ \E f \in Permutations(DOMAIN s) : t = [i \in DOMAIN s |-> s[f[i]]]

\* C21: every candidate received goes into the slice exactly when its probe
\* gave a non-zero RTT and it has an address, with its own identity and that
\* RTT; nothing else changes the slice; and the result is an arrangement of
\* the slice, so it holds these candidates and no others, once per occurrence.
C21_ExactlyTheValidCandidates ==
    /\ [][ /\ (spPc = "ping" /\ spPc' = "recv") =>
                 spPeers' = IF cur.addrs > 0 /\ lastProbe'.rtt # 0
                            THEN Append(spPeers, PeerInfo(cur.ID, lastProbe'.rtt))
                            ELSE spPeers
           /\ ~(spPc = "ping" /\ spPc' = "recv") => spPeers' = spPeers ]_vars
    /\ [](spPc = "returned" => IsArrangement(result, spPeers))
    /\ [](\A k \in DOMAIN spPeers : spPeers[k].Perf.RTT # 0 /\ spPeers[k].ID \in PeerIDs)

\* Four candidates received: A measured 2, B without an address, A without a
\* measure, B measured 1.  The result is B, A.
C21_Witness ==
    /\ spPc = "returned"
    /\ received = 4
    /\ spPeers = <<PeerInfo("A", 2), PeerInfo("B", 1)>>
    /\ result = <<PeerInfo("B", 1), PeerInfo("A", 2)>>
    /\ cur = [ID |-> "B", addrs |-> 1]

\* C22: the deadline is one for the whole call: once passed it stays passed,
\* every probe whose result arrives after it gives no measure and its
\* candidate is left out, and the call goes on to return its result.
C22_SharedDeadline ==
    /\ [][ /\ timedOut => timedOut'
           /\ (spPc = "ping" /\ spPc' = "recv" /\ timedOut) =>
                 /\ lastProbe'.rtt = 0
                 /\ spPeers' = spPeers
           /\ (spPc = "sort" /\ spPc' # "sort") =>
                 (spPc' = "returned" /\ IsArrangement(result', spPeers)) ]_vars
    /\ [](spPc \in {"notCalled", "recv", "ping", "sort", "returned"})

\* The first probe gave a measure; the deadline passed during the second probe
\* and its candidate, which has an address, is not in the result.
C22_Witness ==
    /\ spPc = "returned"
    /\ timedOut /\ ~cancelled
    /\ received = 2
    /\ cur.addrs = 1
    /\ lastProbe = [rtt |-> 0, ctxDone |-> TRUE]
    /\ Len(result) = 1

\* ----------------- package util: psk.go (lines 16-164), src/unnamed/part_003
\* A multiaddress string is the sequence of its fields between slashes: the
\* text "/ip4/a/tcp/1/" is <<"", "ip4", "a", "tcp", "1", "">>.
AddrTexts == { <<"", "ip4", "a", "tcp", "1">>,
               <<"", "ip4", "a", "tcp", "1", "">>,
               <<"", "ip4", "b", "tcp", "1">>,
               <<"", "hello", "World">>,
               <<"ip4", "a">>,
               <<>> }

\* The protocols of the multiaddr table that the texts use; each takes one value.
ProtocolNames == {"ip4", "tcp"}

\* strings.TrimRight(s, "/") of NewMultiaddr: the empty fields at the end go.
RECURSIVE TrimRightSlash(_)
TrimRightSlash(t) ==
    IF t # <<>> /\ t[Len(t)] = "" THEN TrimRightSlash(SubSeq(t, 1, Len(t) - 1)) ELSE t

\* The components of the fields after the leading slash, or the parse error.
RECURSIVE ParseComponents(_)
ParseComponents(f) ==
    IF f = <<>> THEN [err |-> FALSE, comps |-> <<>>]
    ELSE IF f[1] \notin ProtocolNames \/ Len(f) < 2 THEN [err |-> TRUE, comps |-> <<>>]
    ELSE LET rest == ParseComponents(SubSeq(f, 3, Len(f)))
         IN  IF rest.err THEN rest
             ELSE [err |-> FALSE, comps |-> <<[proto |-> f[1], value |-> f[2]]>> \o rest.comps]

\* multiaddr.NewMultiaddr(val)
NewMultiaddr(val) ==
    LET t == TrimRightSlash(val)
    IN  IF t = <<>> \/ t[1] # "" THEN [err |-> TRUE, addr |-> <<>>]
        ELSE LET r == ParseComponents(Tail(t))
             IN  IF r.err \/ r.comps = <<>> THEN [err |-> TRUE, addr |-> <<>>]
                 ELSE [err |-> FALSE, addr |-> r.comps]

\* Multiaddr.String(): a slash, then name and value of each component.
RECURSIVE ComponentFields(_)
ComponentFields(a) ==
    IF a = <<>> THEN <<>> ELSE <<a[1].proto, a[1].value>> \o ComponentFields(Tail(a))

MultiaddrString(a) == <<"">> \o ComponentFields(a)

\* Faulty variant: no address is taken for one already in the list.
SameAddr_Never(ma, newAddr) == FALSE

\* Line 124 of part_003: ma.String() == newAddr.String()
SameAddr(ma, newAddr) == MultiaddrString(ma) = MultiaddrString(newAddr)

\* bootstrapAddrs.Set (part_003, lines 117-131): the list it leaves and the
\* error it returns.
BootstrapAddrsSet(addrs, val) ==
    LET parsed == NewMultiaddr(val)
    IN  IF parsed.err THEN [addrs |-> addrs, err |-> "InvalidMultiaddr"]
        ELSE IF \E i \in DOMAIN addrs : SameAddr(addrs[i], parsed.addr)
             THEN [addrs |-> addrs, err |-> "none"]
             ELSE [addrs |-> Append(addrs, parsed.addr), err |-> "none"]

\* A call bootstraps.Set(val), as flag.Parse or a caller holding
\* GetBootstrapPointer() makes it.
BootstrapsSet(val) ==
    LET r == BootstrapAddrsSet(bootstraps, val)
    IN  /\ Len(bootstraps) < MaxAddrs
        /\ bootstraps' = r.addrs
        /\ bsLast' = [called |-> TRUE, val |-> val, err |-> r.err]
        /\ UNCHANGED <<nodeVars, handlerVars, utilVars, sortVars, keyVars,
                       pskFlagLoaded, bootstrapsFlagLoaded, flagRegs, flagRets, psk, pskLog>>

\* What crypto/rand.Read gives: a failure, or one of two byte strings.
RandFail == "fail"
RandReads == {RandFail, "rand1", "rand2"}
Passphrases == {"", "alpha", "beta"}

\* sha3.Sum256(data): 32 bytes, identified by the data they digest.
Sum256(data) == [nil |-> FALSE, len |-> PSK_NUM_BYTES, digest |-> data]

\* Lines 54-64
CreateRandPSK(read) ==
    IF read = RandFail THEN [psk |-> NilPSK, err |-> "NoRandomBytes"]
    ELSE [psk |-> Sum256(read), err |-> "none"]

\* Faulty variant: every key is a random one.
CreatePSK_Random(s, read) == CreateRandPSK(read)

\* Lines 73-82
CreatePSK(s, read) ==
    IF s = "" THEN CreateRandPSK(read) ELSE [psk |-> Sum256(s), err |-> "none"]

\* pskValue.Set (lines 90-108): hPsk is assigned before the error is looked
\* at, sPsk only when there is none.
PskValueSet(pskVal, s, read) ==
    LET r == IF s = "" THEN CreateRandPSK(read) ELSE CreatePSK(s, read)
    IN  IF r.err # "none"
        THEN [val |-> [pskVal EXCEPT !.hPsk = r.psk], err |-> "NoPSK"]
        ELSE [val |-> [hPsk |-> r.psk, sPsk |-> s], err |-> "none"]

\* Lines 85-87
PskValueString(pskVal) == pskVal.sPsk

\* Lines 162-164
GetFlagPSKString == psk.sPsk

\* A call psk.Set(s), as flag.Parse or a caller holding GetPSKPointer() makes it.
PskSet(s, read) ==
    LET r == PskValueSet(psk, s, read)
    IN  /\ Len(pskLog) < MaxSets
        /\ psk' = r.val
        /\ pskLog' = Append(pskLog, [arg |-> s, err |-> r.err, hPsk |-> r.val.hPsk])
        /\ UNCHANGED <<nodeVars, handlerVars, utilVars, sortVars, keyVars,
                       pskFlagLoaded, bootstrapsFlagLoaded, flagRegs, flagRets,
                       bootstraps, bsLast>>

\* Faulty variant: the flag is registered at every call.
NeedsRegistration_Always(loaded) == TRUE

\* Lines 112 of psk.go and 144 of part_003: if !pskFlagLoaded
NeedsRegistration(loaded) == ~loaded

\* AddPSKFlag (psk.go, lines 111-127)
AddPSKFlag ==
    /\ Len(flagRets) < MaxFlagCalls
    /\ flagRegs' = IF NeedsRegistration(pskFlagLoaded) THEN Append(flagRegs, "psk")
                   ELSE flagRegs
    /\ pskFlagLoaded' = TRUE
    /\ flagRets' = Append(flagRets, [fn |-> "AddPSKFlag", ptr |-> "&psk.hPsk", err |-> "none"])
    /\ UNCHANGED <<nodeVars, handlerVars, utilVars, sortVars, keyVars,
                   bootstrapsFlagLoaded, psk, pskLog, bootstraps, bsLast>>

\* AddBootstrapFlags (part_003, lines 143-157)
AddBootstrapFlags ==
    /\ Len(flagRets) < MaxFlagCalls
    /\ flagRegs' = IF NeedsRegistration(bootstrapsFlagLoaded)
                   THEN Append(flagRegs, "bootstrap") ELSE flagRegs
    /\ bootstrapsFlagLoaded' = TRUE
    /\ flagRets' = Append(flagRets, [fn |-> "AddBootstrapFlags", ptr |-> "&bootstraps",
                                     err |-> "none"])
    /\ UNCHANGED <<nodeVars, handlerVars, utilVars, sortVars, keyVars,
                   pskFlagLoaded, psk, pskLog, bootstraps, bsLast>>

InitFlags == NodeIdle /\ UtilIdle /\ SortIdle /\ NoHandlers /\ PkgIdle

NextFlags ==
    \/ AddPSKFlag
    \/ AddBootstrapFlags
    \/ \E s \in Passphrases : \E read \in RandReads : PskSet(s, read)
    \/ \E val \in AddrTexts : BootstrapsSet(val)

SpecFlags == InitFlags /\ [][NextFlags]_vars

\* ------------------------------------------------------------------- flags
\* The calls of fn so far, and how often the flag `name` was handed to flag.Var.
FlagCallsOf(fn) == {k \in DOMAIN flagRets : flagRets[k].fn = fn}
Registrations(name) == Cardinality({k \in DOMAIN flagRegs : flagRegs[k] = name})

\* C25: every call of AddPSKFlag returns the address of psk.hPsk and every call
\* of AddBootstrapFlags the address of bootstraps, without an error; each flag
\* has been handed to flag.Var once as soon as its function was called and
\* never again, and not before.
C25_FlagsIdempotent ==
    /\ \A k \in DOMAIN flagRets :
          /\ flagRets[k].err = "none"
          /\ flagRets[k].ptr = IF flagRets[k].fn = "AddPSKFlag" THEN "&psk.hPsk"
                               ELSE "&bootstraps"
    /\ Registrations("psk") = IF FlagCallsOf("AddPSKFlag") = {} THEN 0 ELSE 1
    /\ Registrations("bootstrap") = IF FlagCallsOf("AddBootstrapFlags") = {} THEN 0 ELSE 1
    /\ pskFlagLoaded = (FlagCallsOf("AddPSKFlag") # {})
    /\ bootstrapsFlagLoaded = (FlagCallsOf("AddBootstrapFlags") # {})

\* AddPSKFlag called twice and AddBootstrapFlags once in between.
C25_Witness ==
    /\ Len(flagRets) = 3
    /\ flagRets[1].fn = "AddPSKFlag" /\ flagRets[2].fn = "AddBootstrapFlags"
    /\ flagRets[3].fn = "AddPSKFlag"
    /\ flagRegs = <<"psk", "bootstrap">>

\* No two entries of the list are the same address.
NoTwoEqual(addrs) == \A i, j \in DOMAIN addrs : i # j => addrs[i] # addrs[j]

\* C26: the list never holds an address twice, and a Set(val) call leaves it as
\* it was with an error when val does not parse, leaves it as it was without
\* an error when the address of val is in it, and otherwise puts the address of
\* val at its end, one longer, without an error.
C26_SetKeepsAddrsDistinct ==
    /\ [] NoTwoEqual(bootstraps)
    /\ [][ bsLast'.called =>
             LET parsed == NewMultiaddr(bsLast'.val)
             IN  IF parsed.err
                 THEN bootstraps' = bootstraps /\ bsLast'.err # "none"
                 ELSE IF \E i \in DOMAIN bootstraps : bootstraps[i] = parsed.addr
                 THEN bootstraps' = bootstraps /\ bsLast'.err = "none"
                 ELSE /\ bootstraps' = Append(bootstraps, parsed.addr)
                      /\ Len(bootstraps') = Len(bootstraps) + 1
                      /\ bsLast'.err = "none" ]_<<bootstraps, bsLast>>

\* Two addresses are in the list and the latest call gave the first of them
\* again, written with a slash at its end.
C26_Witness ==
    /\ Len(bootstraps) = 2
    /\ bsLast = [called |-> TRUE, val |-> <<"", "ip4", "a", "tcp", "1", "">>, err |-> "none"]
    /\ MultiaddrString(bootstraps[1]) = <<"", "ip4", "a", "tcp", "1">>

\* The calls of pskValue.Set so far all succeeded.
AllSetsOk == \A k \in DOMAIN pskLog : pskLog[k].err = "none"

\* C27: after Set calls that all succeeded, String() and GetFlagPSKString()
\* give the argument of the latest one, the key has 32 bytes, and two calls
\* with the same non-empty passphrase left the same key.
C27_StringIsLatestSet ==
    (pskLog # <<>> /\ AllSetsOk) =>
        /\ PskValueString(psk) = pskLog[Len(pskLog)].arg
        /\ GetFlagPSKString = pskLog[Len(pskLog)].arg
        /\ psk.hPsk = pskLog[Len(pskLog)].hPsk
        /\ ~psk.hPsk.nil /\ psk.hPsk.len = 32
        /\ \A i, j \in DOMAIN pskLog :
              (pskLog[i].arg = pskLog[j].arg /\ pskLog[i].arg # "") =>
                  pskLog[i].hPsk = pskLog[j].hPsk

\* alpha, then the empty passphrase (a random key), then alpha again.
C27_Witness ==
    /\ Len(pskLog) = 3 /\ AllSetsOk
    /\ pskLog[1].arg = "alpha" /\ pskLog[2].arg = "" /\ pskLog[3].arg = "alpha"
    /\ pskLog[2].hPsk # pskLog[1].hPsk
    /\ PskValueString(psk) = "alpha"

\* ------- package util: key files (src/util/psk_test.go, lines 685-808;
\* ------- ExpandTilde and FileExists of src/util/util.go, lines 37-63)
\* A text (a path, the content of a file) is the sequence of its characters.
Digits == <<"0", "1", "2", "3", "4", "5", "6", "7", "8", "9">>
Spaces == {" ", "\n", "\t", "\r"}

\* The alphabet of base64.StdEncoding, which crypto.ConfigEncodeKey uses.
B64Chars == <<"A", "B", "C", "D", "E", "F", "G", "H", "I", "J", "K", "L", "M",
              "N", "O", "P", "Q", "R", "S", "T", "U", "V", "W", "X", "Y", "Z",
              "a", "b", "c", "d", "e", "f", "g", "h", "i", "j", "k", "l", "m",
              "n", "o", "p", "q", "r", "s", "t", "u", "v", "w", "x", "y", "z",
              "0", "1", "2", "3", "4", "5", "6", "7", "8", "9", "+", "/">>
IsB64(c) == \E i \in DOMAIN B64Chars : B64Chars[i] = c
B64Value(c) == (CHOOSE i \in DOMAIN B64Chars : B64Chars[i] = c) - 1

\* One to three bytes as four characters, padded with "=".
EncodeGroup(g) ==
    LET n == g[1] * 65536 + (IF Len(g) > 1 THEN g[2] ELSE 0) * 256
                          + (IF Len(g) > 2 THEN g[3] ELSE 0)
        c1 == B64Chars[(n \div 262144) + 1]
        c2 == B64Chars[((n \div 4096) % 64) + 1]
        c3 == B64Chars[((n \div 64) % 64) + 1]
        c4 == B64Chars[(n % 64) + 1]
    IN  IF Len(g) = 3 THEN <<c1, c2, c3, c4>>
        ELSE IF Len(g) = 2 THEN <<c1, c2, c3, "=">>
        ELSE <<c1, c2, "=", "=">>

\* crypto.ConfigEncodeKey(rawBytes)
RECURSIVE ConfigEncodeKey(_)
ConfigEncodeKey(b) ==
    IF b = <<>> THEN <<>>
    ELSE IF Len(b) <= 3 THEN EncodeGroup(b)
    ELSE EncodeGroup(SubSeq(b, 1, 3)) \o ConfigEncodeKey(SubSeq(b, 4, Len(b)))

\* Four characters back to one to three bytes; padding only at the end of the
\* group.
DecodeGroup(g) ==
    LET pad == IF g[4] = "=" THEN (IF g[3] = "=" THEN 2 ELSE 1) ELSE 0
        v(i) == IF i <= 4 - pad THEN B64Value(g[i]) ELSE 0
        n == v(1) * 262144 + v(2) * 4096 + v(3) * 64 + v(4)
        bytes == <<n \div 65536, (n \div 256) % 256, n % 256>>
    IN  IF \E i \in 1..(4 - pad) : ~IsB64(g[i])
        THEN [err |-> TRUE, pad |-> 0, bytes |-> <<>>]
        ELSE [err |-> FALSE, pad |-> pad, bytes |-> SubSeq(bytes, 1, 3 - pad)]

RECURSIVE DecodeGroups(_)
DecodeGroups(t) ==
    IF t = <<>> THEN [err |-> FALSE, bytes |-> <<>>]
    ELSE LET g == DecodeGroup(SubSeq(t, 1, 4))
             rest == DecodeGroups(SubSeq(t, 5, Len(t)))
         IN  IF g.err \/ (g.pad > 0 /\ Len(t) > 4) \/ rest.err
             THEN [err |-> TRUE, bytes |-> <<>>]
             ELSE [err |-> FALSE, bytes |-> g.bytes \o rest.bytes]

\* crypto.ConfigDecodeKey(keyB64): base64.StdEncoding.DecodeString, which skips
\* line ends and wants whole groups of four.
ConfigDecodeKey(t) ==
    LET u == SelectSeq(t, LAMBDA c : c \notin {"\n", "\r"})
    IN  IF Len(u) % 4 # 0 THEN [err |-> TRUE, bytes |-> <<>>] ELSE DecodeGroups(u)

\* fmt.Sprintf("%d", n) for n >= 0
RECURSIVE FormatInt(_)
FormatInt(n) ==
    IF n < 10 THEN <<Digits[n + 1]>> ELSE FormatInt(n \div 10) \o <<Digits[(n % 10) + 1]>>

RECURSIVE DigitsValue(_)
DigitsValue(t) ==
    IF t = <<>> THEN 0
    ELSE DigitsValue(SubSeq(t, 1, Len(t) - 1)) * 10
         + ((CHOOSE i \in DOMAIN Digits : Digits[i] = t[Len(t)]) - 1)

\* strconv.ParseInt(t, 10, 32)
ParseInt(t) ==
    LET signed == t # <<>> /\ t[1] \in {"+", "-"}
        digits == IF signed THEN Tail(t) ELSE t
        value == IF signed /\ t[1] = "-" THEN 0 - DigitsValue(digits) ELSE DigitsValue(digits)
    IN  IF digits = <<>> \/ \E i \in DOMAIN digits : \A d \in DOMAIN Digits : Digits[d] # digits[i]
        THEN [err |-> TRUE, value |-> 0]
        ELSE IF value < (0 - 2147483647) - 1 \/ value > 2147483647
        THEN [err |-> TRUE, value |-> 0]
        ELSE [err |-> FALSE, value |-> value]

\* strings.TrimSpace
RECURSIVE TrimSpace(_)
TrimSpace(t) ==
    IF t = <<>> THEN t
    ELSE IF t[1] \in Spaces THEN TrimSpace(Tail(t))
    ELSE IF t[Len(t)] \in Spaces THEN TrimSpace(SubSeq(t, 1, Len(t) - 1))
    ELSE t

\* strings.IndexByte(t, c): the index, from 0, of the first c; -1 without one.
IndexByte(t, c) ==
    IF \E i \in DOMAIN t : t[i] = c
    THEN (CHOOSE i \in DOMAIN t : t[i] = c /\ \A j \in 1..(i - 1) : t[j] # c) - 1
    ELSE 0 - 1

\* The private keys handed to StorePrivKeyToFile: pb.KeyType (0 RSA, 1 Ed25519,
\* 2 Secp256k1, 3 ECDSA) and the bytes of Raw(), of one, two and three bytes;
\* two of them are of one type.
KeyTypes == 0..3
Keys == { [nil |-> FALSE, type |-> 1, raw |-> <<77>>],
          [nil |-> FALSE, type |-> 1, raw |-> <<97>>],
          [nil |-> FALSE, type |-> 3, raw |-> <<77, 97>>],
          [nil |-> FALSE, type |-> 0, raw |-> <<77, 97, 110>>] }

\* crypto.PrivKeyUnmarshallers[keyType](keyRaw): the key whose Raw() the bytes
\* are, or an error when they are no key of this type.
Unmarshal(keyType, keyRaw) ==
    LET k == [nil |-> FALSE, type |-> keyType, raw |-> keyRaw]
    IN  IF k \in Keys THEN [err |-> FALSE, key |-> k] ELSE [err |-> TRUE, key |-> NoKey]

\* Line 753: fmt.Sprintf("%d %s\n", priv.Type(), crypto.ConfigEncodeKey(rawBytes))
FileStr(priv) == FormatInt(priv.type) \o <<" ">> \o ConfigEncodeKey(priv.raw) \o <<"\n">>

\* Files that are there before the program runs: key files written by hand,
\* and files that are no key files.
OtherTexts == { <<>>,
                <<"3">>,
                <<"x", " ", "T", "W", "F", "u", "\n">>,
                <<"9", " ", "T", "W", "F", "u", "\n">>,
                <<"3", " ", "T", "W", "F", "\n">>,
                <<"2", " ", "T", "W", "F", "u", "\n">>,
                <<" ", "3", " ", "T", "W", "E", "=", "\n", "\n">> }
FileTexts == {FileStr(k) : k \in Keys} \cup OtherTexts

\* What lies at a path: nothing in a directory that takes new files
\* ("absent"), nothing in a directory that takes none ("readOnly"), a regular
\* file ("file"), a directory ("dir"), a file below a directory the process
\* may not search ("denied").
Entries == { [kind |-> k, content |-> <<>>] : k \in {"absent", "readOnly", "dir"} }
             \cup { [kind |-> k, content |-> t] : k \in {"file", "denied"}, t \in FileTexts }
HoldsFile(e) == e.kind \in {"file", "denied"}

\* The paths given to the program.
KeyPaths == {KeyName, <<"~">> \o KeyName}

\* ExpandTilde (util.go, lines 37-49)
ExpandTilde(path) ==
    IF path # <<>> /\ path[1] = "~"
    THEN IF home = <<>> THEN [err |-> TRUE, path |-> <<>>]
         ELSE [err |-> FALSE, path |-> home \o Tail(path)]
    ELSE [err |-> FALSE, path |-> path]

\* os.Stat(filePath): the kind of what is there, "NotExist", or another error.
Stat(filePath) ==
    CASE fs[filePath].kind \in {"absent", "readOnly"} -> "NotExist"
      [] fs[filePath].kind = "denied" -> "Permission"
      [] OTHER -> fs[filePath].kind

\* FileExists (util.go, lines 51-63).  With an error of os.Stat that is not
\* "does not exist", info is nil and info.IsDir() is a nil dereference.
FileExists(filePath) ==
    LET x == ExpandTilde(filePath)
    IN  IF x.err THEN "false"
        ELSE IF Stat(x.path) = "NotExist" THEN "false"
        ELSE IF Stat(x.path) = "Permission" THEN "panic"
        ELSE IF Stat(x.path) = "dir" THEN "false"
        ELSE "true"

\* StorePrivKeyToFile (lines 731-760): the error it returns and the file
\* system it leaves; `written` is whether file.WriteString succeeds.
StorePrivKeyToFile(priv, keyFile, written) ==
    LET x == ExpandTilde(keyFile)
    IN  IF x.err THEN [err |-> "NoHome", fs |-> fs]
        ELSE IF FileExists(x.path) = "panic" THEN [err |-> "panic", fs |-> fs]
        ELSE IF FileExists(x.path) = "true" THEN [err |-> "FileExists", fs |-> fs]
        ELSE IF fs[x.path].kind # "absent" THEN [err |-> "CreateFailed", fs |-> fs]
        ELSE IF ~written
        THEN [err |-> "WriteFailed",
              fs |-> [fs EXCEPT ![x.path] = [kind |-> "file", content |-> <<>>]]]
        ELSE [err |-> "none",
              fs |-> [fs EXCEPT ![x.path] = [kind |-> "file", content |-> FileStr(priv)]]]

\* Faulty variant: the key text starts at the space.
KeyB64_WithSpace(contentStr, spaceIdx) == SubSeq(contentStr, spaceIdx + 1, Len(contentStr))

\* Line 795: contentStr[spaceIdx+1:], spaceIdx counted from 0
KeyB64(contentStr, spaceIdx) == SubSeq(contentStr, spaceIdx + 2, Len(contentStr))

\* LoadPrivKeyFromFile (lines 763-808): the key and the error it returns.
LoadPrivKeyFromFile(keyFile) ==
    LET x == ExpandTilde(keyFile)
        contentStr == TrimSpace(fs[x.path].content)
        spaceIdx == IndexByte(contentStr, " ")
        keyType == ParseInt(SubSeq(contentStr, 1, spaceIdx))
        keyRaw == ConfigDecodeKey(KeyB64(contentStr, spaceIdx))
        priv == Unmarshal(keyType.value, keyRaw.bytes)
    IN  IF x.err THEN [key |-> NoKey, err |-> "NoHome"]
        ELSE IF FileExists(x.path) = "panic" THEN [key |-> NoKey, err |-> "panic"]
        ELSE IF FileExists(x.path) = "false" THEN [key |-> NoKey, err |-> "NoFile"]
        ELSE IF spaceIdx <= 0 THEN [key |-> NoKey, err |-> "Corrupted"]
        ELSE IF keyType.err THEN [key |-> NoKey, err |-> "BadType"]
        ELSE IF keyRaw.err THEN [key |-> NoKey, err |-> "BadBase64"]
        ELSE IF keyType.value \notin KeyTypes THEN [key |-> NoKey, err |-> "UnknownAlgorithm"]
        ELSE IF priv.err THEN [key |-> NoKey, err |-> "BadKey"]
        ELSE [key |-> priv.key, err |-> "none"]

\* What lay at the path a call names, before the call.
EntryAt(keyFile) ==
    IF ExpandTilde(keyFile).err THEN NoEntry ELSE fs[ExpandTilde(keyFile).path]

\* A call of StorePrivKeyToFile; a panic ends the process.
Store(priv, keyFile, written) ==
    LET r == StorePrivKeyToFile(priv, keyFile, written)
    IN  /\ keyCall.err # "panic"
        /\ fs' = r.fs
        /\ keyCall' = [op |-> "Store", path |-> keyFile, key |-> priv, err |-> r.err,
                       before |-> EntryAt(keyFile)]
        /\ storedAt' = IF r.err = "none" THEN storedAt \cup {ExpandTilde(keyFile).path}
                       ELSE storedAt
        /\ UNCHANGED <<nodeVars, handlerVars, utilVars, sortVars, flagVars, home, kfCall,
                       issued>>

\* A call of LoadPrivKeyFromFile.
Load(keyFile) ==
    LET r == LoadPrivKeyFromFile(keyFile)
    IN  /\ keyCall.err # "panic"
        /\ keyCall' = [op |-> "Load", path |-> keyFile, key |-> r.key, err |-> r.err,
                       before |-> EntryAt(keyFile)]
        /\ UNCHANGED <<nodeVars, handlerVars, utilVars, sortVars, flagVars, home, fs, storedAt,
                       kfCall, issued>>

\* The program starts in any file system; $HOME is set or not.
InitKeys ==
    /\ NodeIdle /\ UtilIdle /\ SortIdle /\ NoHandlers /\ FlagsIdle
    /\ home \in {HomeDir, <<>>}
    /\ fs \in [AbsPaths -> Entries]
    /\ keyCall = NoKeyCall
    /\ storedAt = {}
    /\ kfCall = NoKfCall
    /\ issued = [p \in AbsPaths |-> NoKey]

NextKeys ==
    \/ \E priv \in Keys, keyFile \in KeyPaths, written \in BOOLEAN :
          Store(priv, keyFile, written)
    \/ \E keyFile \in KeyPaths : Load(keyFile)

SpecKeys == InitKeys /\ [][NextKeys]_vars

\* ------------------------------------------- CreateOrLoadKey, lines 704-905
\* strings.EqualFold on texts of ASCII letters, digits and signs.
ToLower(c) ==
    IF \E i \in 1..26 : B64Chars[i] = c
    THEN B64Chars[(CHOOSE i \in 1..26 : B64Chars[i] = c) + 26]
    ELSE c
EqualFold(s, t) == Len(s) = Len(t) /\ \A i \in DOMAIN s : ToLower(s[i]) = ToLower(t[i])

\* pb.KeyType_value: the names of the key types and their IDs.
KeyType_value ==
    { [name |-> <<"R", "S", "A">>, id |-> 0],
      [name |-> <<"E", "d", "2", "5", "5", "1", "9">>, id |-> 1],
      [name |-> <<"S", "e", "c", "p", "2", "5", "6", "k", "1">>, id |-> 2],
      [name |-> <<"E", "C", "D", "S", "A">>, id |-> 3] }

RSA_MIN_BITS == 2048

\* Lines 705-712: the ID of the name that matches algo, or -1.
KeyTypeOf(algo) ==
    IF \E e \in KeyType_value : EqualFold(e.name, algo)
    THEN (CHOOSE e \in KeyType_value : EqualFold(e.name, algo)).id
    ELSE 0 - 1

\* Line 721: crypto.GenerateKeyPair(keyType, bits); rnd is the key the random
\* source yields, or none when the generation fails.
GenerateKeyPair(keyType, rnd) ==
    IF rnd.nil \/ rnd.type # keyType THEN [key |-> NoKey, err |-> TRUE]
    ELSE [key |-> rnd, err |-> FALSE]

\* GeneratePrivKey (lines 704-726)
GeneratePrivKey(algo, bits, rnd) ==
    IF KeyTypeOf(algo) < 0 THEN [key |-> NoKey, err |-> "UnknownAlgorithm"]
    ELSE IF KeyTypeOf(algo) = 0 /\ bits < RSA_MIN_BITS THEN [key |-> NoKey, err |-> "RSABits"]
    ELSE IF GenerateKeyPair(KeyTypeOf(algo), rnd).err THEN [key |-> NoKey, err |-> "Generate"]
    ELSE [key |-> GenerateKeyPair(KeyTypeOf(algo), rnd).key, err |-> "none"]

\* checkKeyFlags (lines 851-863)
checkKeyFlags(kf) ==
    IF kf.nilPtr THEN "NilPointers"
    ELSE IF kf.algo = <<>> \/ kf.bits = 0 \/ kf.keyfile = <<>> THEN "ZeroValued"
    ELSE "none"

\* Faulty variant: the key file is never taken to be there.
KeyfileExists_Never(kf) == "false"

\* Line 884: FileExists(*kf.Keyfile)
KeyfileExists(kf) == FileExists(kf.keyfile)

\* CreateOrLoadKey (lines 865-905): the key and the error it returns, the file
\* system it leaves, whether it called GeneratePrivKey, and whether it looked
\* at the file system.
CreateOrLoadKey(kf, rnd, written) ==
    LET g == GeneratePrivKey(kf.algo, kf.bits, rnd)
        l == LoadPrivKeyFromFile(kf.keyfile)
        s == StorePrivKeyToFile(g.key, kf.keyfile, written)
        out(k, e, files, gen, stat) ==
            [key |-> k, err |-> e, fs |-> files, generated |-> gen, touched |-> stat]
    IN  IF checkKeyFlags(kf) # "none" THEN out(NoKey, checkKeyFlags(kf), fs, FALSE, FALSE)
        ELSE IF kf.ephemeral
        THEN IF g.err # "none" THEN out(NoKey, "GenerateFailed", fs, TRUE, FALSE)
             ELSE out(g.key, "none", fs, TRUE, FALSE)
        ELSE IF KeyfileExists(kf) = "panic" THEN out(NoKey, "panic", fs, FALSE, TRUE)
        ELSE IF KeyfileExists(kf) = "true"
        THEN IF l.err = "panic" THEN out(NoKey, "panic", fs, FALSE, TRUE)
             ELSE IF l.err # "none" THEN out(NoKey, "LoadFailed", fs, FALSE, TRUE)
             ELSE out(l.key, "none", fs, FALSE, TRUE)
        ELSE IF g.err # "none" THEN out(NoKey, "GenerateFailed", fs, TRUE, TRUE)
        ELSE IF s.err = "panic" THEN out(NoKey, "panic", s.fs, TRUE, TRUE)
        ELSE IF s.err # "none" THEN out(NoKey, "StoreFailed", s.fs, TRUE, TRUE)
        ELSE out(g.key, "none", s.fs, TRUE, TRUE)

\* The flags the program passes: as AddKeyFlags and the command line leave them,
\* or with pointers missing.
KeyFlags(algo, bits, keyfile, ephemeral) ==
    [nilPtr |-> FALSE, algo |-> algo, bits |-> bits, keyfile |-> keyfile,
     ephemeral |-> ephemeral]
AlgoAndBits == { <<<<"R", "S", "A">>, 2048>>, <<<<"R", "S", "A">>, 1024>>,
                 <<<<"e", "d", "2", "5", "5", "1", "9">>, 2048>>,
                 <<<<"D", "S", "A">>, 2048>> }
KeyFlagValues ==
    { KeyFlags(ab[1], ab[2], f, FALSE) : ab \in AlgoAndBits, f \in KeyPaths }
    \cup { KeyFlags(ab[1], ab[2], KeyName, TRUE) : ab \in AlgoAndBits }
    \cup { KeyFlags(<<>>, 2048, KeyName, FALSE),
           KeyFlags(<<"R", "S", "A">>, 0, KeyName, FALSE),
           KeyFlags(<<"R", "S", "A">>, 2048, <<>>, FALSE),
           NoFlags }

\* What the random source may yield: one of two Ed25519 keys, an RSA key, or a
\* failure.
RandKeys == {k \in Keys : k.type \in {0, 1}} \cup {NoKey}

\* The path of the key file of flags that name one.
KeyfilePath(kf) == ExpandTilde(kf.keyfile).path
NamesKeyfile(kf) ==
    checkKeyFlags(kf) = "none" /\ ~kf.ephemeral /\ ~ExpandTilde(kf.keyfile).err

\* A call of CreateOrLoadKey; a panic ends the process.
CallCreateOrLoadKey(kf, rnd, written) ==
    \E r \in {CreateOrLoadKey(kf, rnd, written)} :
        /\ kfCall.err # "panic"
        /\ fs' = r.fs
        /\ kfCall' = [called |-> TRUE, kf |-> kf,
                      rnd |-> IF r.generated THEN rnd ELSE NoKey,
                      written |-> r.fs # fs,
                      key |-> r.key, err |-> r.err, generated |-> r.generated,
                      touched |-> r.touched]
        /\ storedAt' = IF r.fs # fs /\ r.err = "none"
                       THEN storedAt \cup {KeyfilePath(kf)} ELSE storedAt
        /\ issued' = IF NamesKeyfile(kf) /\ r.err = "none" /\ issued[KeyfilePath(kf)].nil
                     THEN [issued EXCEPT ![KeyfilePath(kf)] = r.key]
                     ELSE issued
        /\ UNCHANGED <<nodeVars, handlerVars, utilVars, sortVars, flagVars, home, keyCall>>

\* The program starts with $HOME set or not, with anything at the path of the
\* key file, and with nothing or a key file at the same path below $HOME.
InitCreate ==
    /\ NodeIdle /\ UtilIdle /\ SortIdle /\ NoHandlers /\ FlagsIdle
    /\ home \in {HomeDir, <<>>}
    /\ fs \in [AbsPaths -> Entries]
    /\ fs[KeyName].content \in {<<>>, <<"3">>, FileStr([nil |-> FALSE, type |-> 1, raw |-> <<77>>])}
    /\ fs[KeyName].kind = "denied" => fs[KeyName].content = <<"3">>
    /\ fs[HomeDir \o KeyName].kind \in {"absent", "file"}
    /\ fs[HomeDir \o KeyName] \in
          {NoEntry} \cup {[kind |-> "file", content |-> FileStr(k)] : k \in Keys \ RandKeys}
    /\ keyCall = NoKeyCall
    /\ storedAt = {}
    /\ kfCall = NoKfCall
    /\ issued = [p \in AbsPaths |-> NoKey]

\* Whether a call with these flags gets as far as the random source, and as far
\* as the write.
Generates(kf) == CreateOrLoadKey(kf, NoKey, FALSE).generated
Writes(kf, rnd) ==
    /\ Generates(kf)
    /\ ~kf.ephemeral
    /\ GeneratePrivKey(kf.algo, kf.bits, rnd).err = "none"

NextCreate ==
    \E kf \in KeyFlagValues :
        \E rnd \in (IF Generates(kf) THEN RandKeys ELSE {NoKey}) :
            \E written \in (IF Writes(kf, rnd) THEN BOOLEAN ELSE {FALSE}) :
                CallCreateOrLoadKey(kf, rnd, written)

\* A program that calls CreateOrLoadKey again and again.
SpecCreate == InitCreate /\ [][NextCreate]_vars

\* ---------------------------------------------------------------- key files
\* C28: a StorePrivKeyToFile call on a path that holds a file returns an error
\* and leaves the file as it was; on a path that holds nothing, in a directory
\* that takes new files and with the write succeeding, it returns no error and
\* the file is there.
C28_StoreRefusesExistingFile ==
    (keyCall.op = "Store" /\ ~ExpandTilde(keyCall.path).err) =>
        LET p == ExpandTilde(keyCall.path).path
        IN  /\ HoldsFile(keyCall.before) =>
                  /\ keyCall.err \notin {"none", "panic"}
                  /\ fs[p] = keyCall.before
            /\ (keyCall.before.kind = "absent" /\ keyCall.err # "WriteFailed") =>
                  /\ keyCall.err = "none"
                  /\ fs[p].kind = "file"

\* C29: a key file that StorePrivKeyToFile wrote, or that holds the text
\* '<key type id> <base64 key>' of a key, loads without an error into a key of
\* the same type and the same raw bytes, whose text is the content of the
\* file; and a load of such a file returned that key.
C29_LoadInvertsStore ==
    /\ \A p \in KeyPaths :
          LET x == ExpandTilde(p)
              r == LoadPrivKeyFromFile(p)
          IN  (~x.err /\ fs[x.path].kind = "file"
                 /\ (x.path \in storedAt \/ \E k \in Keys : fs[x.path].content = FileStr(k))) =>
                    /\ r.err = "none"
                    /\ FileStr(r.key) = fs[x.path].content
                    /\ (keyCall.op = "Store" /\ keyCall.path = p /\ keyCall.err = "none") =>
                          (r.key.type = keyCall.key.type /\ r.key.raw = keyCall.key.raw)
                    /\ (keyCall.op = "Load" /\ keyCall.path = p) =>
                          (keyCall.err = "none" /\ keyCall.key = r.key)
    /\ \A k \in Keys : k.raw # <<>> /\ ConfigDecodeKey(ConfigEncodeKey(k.raw)).bytes = k.raw

\* The two-byte ECDSA key was stored under the home directory and the latest
\* call loaded it from there.
C29_Witness ==
    /\ keyCall.op = "Load" /\ keyCall.err = "none"
    /\ keyCall.path = <<"~">> \o KeyName
    /\ HomeDir \o KeyName \in storedAt
    /\ keyCall.key = [nil |-> FALSE, type |-> 3, raw |-> <<77, 97>>]
    /\ fs[HomeDir \o KeyName].content = <<"3", " ", "T", "W", "E", "=", "\n">>

\* ------------------------------------------------------------- cancellation
\* C30: once the context is cancelled the bootstrap phase begins no further
\* dial round (bootstrapAttempts, counted up at the start of each round, stays)
\* and starts no further dial goroutine.
C30_NoRoundAfterCancel ==
    [][ cancelled => /\ bootstrapAttempts' = bootstrapAttempts
                     /\ goroutines' \subseteq goroutines ]_vars

\* C31: a bootstrap sleep that finds the context cancelled ends at once: it
\* sleeps no further second and no round follows it.
C31_BootSleepAborts ==
    [][ (pc = "sleep" /\ cancelled) => /\ bootSlept' = bootSlept
                                       /\ pc' \notin {"sleep", "round"} ]_vars

\* Dial goroutines of the peer that are started and have not called Host.Connect.
Pending(p) == Cardinality({g \in goroutines : g.addr.ID = p})

\* C32: when a round goes to wait for its dials, a dial of every anchor has
\* been started in it; the count is taken only when every dial of the round
\* has ended; and a dial that ends, failed or not, leaves the round as it is.
C32_FanOutThenFanIn ==
    [][ /\ (pc = "spawn" /\ pc' = "wait") =>
              \A p \in PeerIDs : dialCount[p] + Pending(p) = bootstrapAttempts * EntriesFor(p)
        /\ (pc' = "count") =>
              /\ goroutines' = {}
              /\ \A p \in PeerIDs : dialCount'[p] = bootstrapAttempts' * EntriesFor(p)
        /\ (dialCount' # dialCount) =>
              /\ pc' = pc /\ err' = err
              /\ bootstrapAttempts' = bootstrapAttempts
              /\ \A p \in PeerIDs : dialCount'[p] + Cardinality({g \in goroutines' : g.addr.ID = p})
                                     = dialCount[p] + Pending(p) ]_vars

\* First round over the anchors A and B: both dials have ended, the one of A
\* connected and the one of B failed, and the count is about to be taken.
C32_Witness ==
    /\ pc = "count"
    /\ bootstrapAttempts = 1
    /\ Len(anchors) = 2 /\ anchors[1].p2p = "A" /\ anchors[2].p2p = "B"
    /\ dialCount = [p \in PeerIDs |-> 1]
    /\ conn["A"] = Connected /\ conn["B"] = NotConnected
    /\ goroutines = {}

\* C33: an invocation goes from its loop test to the re-advertisement only
\* when the host reports its anchor Connected; when it does not, the test is
\* followed by the backoff (by the dial, before the first one) whatever the
\* latest dial returned; a dial always leads back to the loop test; and the
\* Reconnected ending is reached from the re-advertisement only.
C33_OnlyConnectedEndsLoop ==
    [][ \A c \in CBs :
          /\ (cb[c].pc = "loop" /\ cb'[c].pc = "advertise") => conn[cb[c].peer] = Connected
          /\ (cb[c].pc = "loop" /\ cb'[c].pc # "loop" /\ conn[cb[c].peer] # Connected) =>
                cb'[c].pc = IF cb[c].dials > 0 THEN "sleep" ELSE "connect"
          /\ (cb[c].pc = "connect" /\ cb'[c] # cb[c]) => cb'[c].pc = "loop"
          /\ (cb'[c].exit = "reconnected" /\ cb[c].exit # "reconnected") =>
                cb[c].pc = "advertise" ]_vars

\* The first dial returned no error, the anchor was lost again before the loop
\* test, and the invocation has slept its two seconds and stands at the next dial.
C33_Witness ==
    \E c \in CBs :
        /\ cb[c].pc = "connect"
        /\ cb[c].dialOk
        /\ cb[c].dials = 1
        /\ cb[c].slept = 2
        /\ conn[cb[c].peer] = NotConnected

\* The seconds slept before the dials 2 .. k + 1 of one invocation.
RECURSIVE SleptBeforeDial(_)
SleptBeforeDial(k) == IF k <= 0 THEN 0 ELSE SleptBeforeDial(k - 1) + Min(Pow2(k), 512)

\* C34: the first dial of an invocation comes without a sleep; dial k + 1 comes
\* after a sleep of exactly min(2^k, 512) seconds, slept in full; and no sleep
\* is set to more than 512 seconds.
C34_BackoffCappedAt512 ==
    /\ [][ \A c \in CBs :
             (cb[c].pc = "connect" /\ cb'[c].pc = "loop") =>
                 /\ cb'[c].dials = cb[c].dials + 1
                 /\ cb[c].slept = SleptBeforeDial(cb[c].dials)
                 /\ cb[c].dials = 0 => cb[c].sleepDuration = 0
                 /\ cb[c].dials > 0 =>
                       /\ cb[c].sleepDuration = Min(Pow2(cb[c].dials), 512)
                       /\ cb[c].i = cb[c].sleepDuration ]_vars
    /\ [](\A c \in CBs : cb[c].sleepDuration <= 512 /\ cb[c].i <= cb[c].sleepDuration)

\* Eleven dials: sleeps of 2, 4, ..., 512 and 512 seconds lie between them.
C34_Witness ==
    /\ cb[FirstCB].dials = 11
    /\ cb[FirstCB].sleepDuration = 512
    /\ cb[FirstCB].connAttempts = 9
    /\ cb[FirstCB].slept = 1534

\* C35: while the probe of one candidate is outstanding and the producer has
\* more to send, the next candidate can be received and its probe started; and
\* the sort is reached with no probe outstanding.
C35_ProbesFanOut ==
    /\ (spPc = "ping" /\ ~chanClosed /\ received < MaxPeers) => ENABLED Recv
    /\ spPc \in {"sort", "returned"} => chanClosed

\* C36: the delays of successive Sleep() calls on a validly constructed object
\* never decrease, and once a delay is max every later one is max.
C36_SleepsNonDecreasing ==
    (~eb.nil /\ ebErr = "none") =>
        \A i, j \in DOMAIN sleeps :
            i < j => /\ sleeps[i] <= sleeps[j]
                     /\ sleeps[i] = eb.maxPeriod => sleeps[j] = eb.maxPeriod

\* The first n entries of cfg.Rendezvous, as Node.Advertise calls see them.
AdvertisedPrefix(c) ==
    /\ Len(cb[c].advCalls) <= Len(rendezvous)
    /\ \A k \in DOMAIN cb[c].advCalls : cb[c].advCalls[k].rendezvous = rendezvous[k]

\* C37: an invocation of the callback that ends on cancellation has called
\* Node.Advertise for nothing; Advertise is called only in the block after the
\* loop, which is entered only from a loop test that found the anchor Connected,
\* and which walks cfg.Rendezvous once.
C37_AdvertiseOnlyWhenReconnected ==
    [][\A c \in CBs :
         /\ cb'[c].exit \in {"cancelledAtEntry", "cancelledInSleep"} =>
                cb'[c].advCalls = <<>> /\ cb'[c].adv = <<>>
         /\ (cb[c].pc # "advertise" /\ cb'[c].pc = "advertise") =>
                /\ cb[c].pc = "loop"
                /\ conn[cb[c].peer] = Connected
                /\ cb'[c].advCalls = <<>>
         /\ cb'[c].advCalls # cb[c].advCalls =>
                /\ cb[c].pc = "advertise"
                /\ Len(cb'[c].advCalls) = Len(cb[c].advCalls) + 1
         /\ (cb[c].pc = "advertise" /\ cb'[c].pc # "idle") =>
                cb'[c].pc \in {"advertise", "returned"}
         /\ AdvertisedPrefix(c)'
         /\ cb'[c].exit = "reconnected" => Len(cb'[c].advCalls) = Len(rendezvous)
    ]_vars

\* An invocation was cancelled in its back-off sleep after a failed dial, with a
\* namespace configured and the discovery handle in place, and advertised nothing.
C37_Witness ==
    \E c \in CBs :
        /\ cb[c].exit = "cancelledInSleep"
        /\ cb[c].dials > 0
        /\ routingDiscovery
        /\ \E k \in DOMAIN rendezvous : rendezvous[k] # ""
        /\ cb[c].advCalls = <<>>

\* C38: SortPeers leaves its loop only from a receive on a closed channel, so it
\* has returned only if the channel is closed, and the deadline passing changes
\* nothing in that; a started probe is waited for no longer than the deadline; and
\* once the channel is closed the call returns.
C38_ReturnsIffChannelClosed ==
    /\ [][ /\ spPc' = "sort" /\ spPc # "sort" => spPc = "recv" /\ chanClosed
           /\ (spPc = "recv" /\ ~chanClosed) => spPc' \in {"recv", "ping"}
           /\ chanClosed => chanClosed'
         ]_vars
    /\ [](spPc \in {"sort", "returned"} => chanClosed)
    /\ (spPc = "ping") ~> (spPc # "ping")
    /\ (spPc # "notCalled" /\ chanClosed) ~> (spPc = "returned")

\* The call outlived its deadline waiting for the producer: a probe was cut short
\* by the deadline, and the call returned after the channel was closed.
C38_Witness ==
    /\ spPc = "returned"
    /\ timedOut
    /\ ~cancelled
    /\ chanClosed
    /\ received > 1
    /\ lastProbe.ctxDone

\* C39: when NewNode has returned an error, ReconnectCB is not registered with
\* the host and no invocation of it is running or has run.
C39_FailedNodeHasNoObserver ==
    (pc = "returned" /\ err # "none") =>
        /\ ~registered
        /\ \A c \in CBs : cb[c].pc = "idle"

\* C40: a call with flags that name a key file, on a path where nothing lies and
\* a file can be made, generates a key, and when the write succeeds stores that
\* key and returns it; once a call has returned a key for a path, every later
\* call for that path returns that key with no error, generates none and leaves
\* the file system as it is; a call with the ephemeral flag leaves the file
\* system as it is, does not look at it, and returns what the generation gives.
C40_CreateOrLoadKeyStable ==
    [][ kfCall' # kfCall =>
          LET c == kfCall'
              p == KeyfilePath(c.kf)
              g == GeneratePrivKey(c.kf.algo, c.kf.bits, c.rnd)
          IN  /\ (NamesKeyfile(c.kf) /\ fs[p].kind = "absent") =>
                    /\ c.generated
                    /\ c.written <=> g.err = "none"
                    /\ c.err = "none" =>
                          /\ c.key = c.rnd
                          /\ fs' = [fs EXCEPT ![p] = [kind |-> "file",
                                                      content |-> FileStr(c.key)]]
              /\ (NamesKeyfile(c.kf) /\ ~issued[p].nil) =>
                    /\ c.err = "none"
                    /\ c.key = issued[p]
                    /\ ~c.generated
                    /\ fs' = fs
              /\ (checkKeyFlags(c.kf) = "none" /\ c.kf.ephemeral) =>
                    /\ fs' = fs
                    /\ ~c.touched
                    /\ c.err = "none" <=> g.err = "none"
                    /\ c.key = g.key
      ]_vars

\* A first call generated a key and stored it; a later call for the same file,
\* whose generation would have given another key, returned the stored one.
C40_Witness ==
    /\ NamesKeyfile(kfCall.kf)
    /\ KeyfilePath(kfCall.kf) \in storedAt
    /\ kfCall.err = "none"
    /\ ~kfCall.generated
    /\ kfCall.key = issued[KeyfilePath(kfCall.kf)]
    /\ kfCall.touched
    /\ fs[KeyfilePath(kfCall.kf)].content = FileStr(kfCall.key)
====
